---- MODULE Spec2Model ----
(***************************************************************************)
(* A model of the Go logging package (log.go, device.go, format.go).      *)
(*                                                                         *)
(* Spec          the package's API as whole calls: Init, SetLevel, the     *)
(*               free logging functions and the Logger methods, on the     *)
(*               registry (defaultLogger, loggerMap).                      *)
(* SpecUser      NewLogger and the Logger methods on a logger the caller   *)
(*               built, outside the registry.                              *)
(* SpecHandshake Init and bgWorker as interleaved goroutines, one step    *)
(*               per statement, over the two channels of the stop          *)
(*               handshake.                                                *)
(* SpecHandshakeFair  the same under fair scheduling of the goroutines.    *)
(* SpecSink      NewWriter on every kind of sink descriptor, and log calls *)
(*               and Flush on console, stdout and nsq devices.             *)
(* SpecFile      a daily file device under concurrent log calls, Flush     *)
(*               calls and updateNow, one step per statement.              *)
(* SpecHour      the same for an hourly file device.                       *)
(* SpecRace      log calls on the default logger against each other and    *)
(*               against SetLevel, with the buffers of the pool as         *)
(*               objects.                                                  *)
(* SpecFlush     Init, log calls and Fatal on file and stdout devices of   *)
(*               the registry, and the tick of bgWorker that flushes them. *)
(*                                                                         *)
(* Loggers are held by value: Init never stores one *Logger under two      *)
(* names (a "default" entry reads and writes defaultLogger only, any other *)
(* entry reads and writes loggerMap[name] only), so no two registry slots  *)
(* alias.  Go slices and arrays are 0-based, sequences here are 1-based:   *)
(* log.writers[i] of the source is writers[i + 1] here.                    *)
(***************************************************************************)
EXTENDS Integers, Sequences, FiniteSets, TLC

\* ------------------------------------------------------------------ levels
DEBUG == 0
INFO == 1
WARN == 2
ERROR == 3
DISABLE == 4
FATAL == 5

Levels == DEBUG .. FATAL

\* ------------------------------------------------------------------ bounds
\* most writers a logger is let grow to (append is unbounded in the source)
MaxWriters == 2
\* longest configuration list handed to Init
MaxConfig == 2
\* most buffers kept resting in the pool (sync.Pool may drop any of them)
MaxPool == 1
\* Init calls made in a run of the handshake
MaxInits == 2
\* last time bucket the wall clock reaches
MaxTime == 1
\* goroutines calling Init, and bgWorker goroutines alive or returning at once
NumCallers == 2
NumWorkers == 3

\* goroutines inside Logger.Write at once, and log calls made in a run
NumGoroutines == 2
MaxCalls == 2
\* I/O failures (a failed open, a failed publish) in a run
MaxFails == 1
\* the last day and the last hour of a day the wall clock reaches
MaxDate == 2
MaxHour == 1
\* SetLevel calls made in a run against the log calls
MaxSets == 2

\* capacity of defaultGoroutineCancelCh and of defaultGoroutineCloseCh
ChanCap == 1

\* ------------------------------------------------------------------ inputs
\* logger names as written in a configuration, before strings.ToLower
ConfigNames == {"default", "App"}
\* names handed to GetLogger and SetLevel; "app" is no key of loggerMap
\* until an Init registers it
LookupNames == {"default", "app"}
\* level strings handed to Init and SetLevel
LevelStrs == {"D", "Error", "disable"}
\* sink descriptors of a configuration
WriterDefs == {"console"}
\* thresholds a caller hands to NewWriter directly
UserLevels == {DEBUG, WARN, FATAL}
\* writer indexes handed to SetLevel
Indexes == -2 .. MaxWriters
\* messages
Msgs == {"m"}

\* strings.ToLower on the strings of the model
ToLower(s) ==
    CASE s = "Default" -> "default"
      [] s = "App" -> "app"
      [] s = "D" -> "d"
      [] s = "Error" -> "error"
      [] OTHER -> s

getLevelFromStr(level) ==
    LET l == ToLower(level) IN
    CASE l = "d" -> DEBUG
      [] l = "i" -> INFO
      [] l = "w" -> WARN
      [] l = "e" -> ERROR
      [] l = "debug" -> DEBUG
      [] l = "info" -> INFO
      [] l = "warn" -> WARN
      [] l = "warning" -> WARN
      [] l = "err" -> ERROR
      [] l = "error" -> ERROR
      [] l = "disable" -> DISABLE
      [] OTHER -> INFO

getLevelStr(level) ==
    CASE level = DEBUG -> "D"
      [] level = INFO -> "I"
      [] level = WARN -> "W"
      [] level = ERROR -> "E"
      [] level = FATAL -> "F"
      [] OTHER -> "I"

\* ----------------------------------------------------------------- devices
\* FileDevice.rorate; log.go as given names neither constant, device.go
\* tells them apart and createFileDevice leaves the zero value
DayRorate == 0
HourRorate == 1

\* a nil *os.File; an open one is named by the bucket in its file name
NilFile == -1

\* a nil *bufio.Writer
NilWriter == [isNil |-> TRUE, file |-> NilFile, buf |-> <<>>]

\* bufio.NewWriter(f)
NewBufio(f) == [isNil |-> FALSE, file |-> f, buf |-> <<>>]

\* the fields of the four device structs, zero-valued; kind "panic" and
\* "exit" stand for a constructor call that did not return
ZeroDevice ==
    [kind |-> "", prefix |-> "", rorate |-> 0, file |-> NilFile,
     writer |-> NilWriter, lastdate |-> 0, lock |-> FALSE,
     name |-> "", topic |-> ""]

createFileDevice(args) ==
    [ZeroDevice EXCEPT !.kind = "file", !.prefix = args]

createFileHourDevice(args) ==
    [ZeroDevice EXCEPT !.kind = "file", !.prefix = args, !.rorate = HourRorate]

createConsoleDevice(args) == [ZeroDevice EXCEPT !.kind = "console"]

\* os.Stdout as the file under the buffered writer
StdoutFile == -2

createStdoutDevice(args) ==
    [ZeroDevice EXCEPT !.kind = "stdout", !.writer = NewBufio(StdoutFile)]

\* strings.SplitN(args, ":", 4) on the nsq arguments of the model
SplitArgs(args) ==
    CASE args = "host:1234:name:topic" -> <<"host", "1234", "name", "topic">>
      [] args = "host:1234:name:topic:x" -> <<"host", "1234", "name", "topic:x">>
      [] args = "host:1234::topic" -> <<"host", "1234", "", "topic">>
      [] args = "host:1234: :topic" -> <<"host", "1234", " ", "topic">>
      [] args = "host:1234" -> <<"host", "1234">>
      [] OTHER -> <<args>>

\* strings.Trim(item, " ") on the fields of the model
Trim(item) == IF item = " " THEN "" ELSE item

\* items[0], items[1], items[2] of the source are items[1], items[2],
\* items[3] here; nsq.NewProducer fails on an invalid nsq.Config only, and
\* nsq.NewConfig() is valid
createNsqDevice(args) ==
    LET items == SplitArgs(args) IN
    IF Len(items) # 4 THEN [ZeroDevice EXCEPT !.kind = "exit"]
    ELSE IF \E i \in 1 .. 4 : Trim(items[i]) = ""
    THEN [ZeroDevice EXCEPT !.kind = "exit"]
    ELSE [ZeroDevice EXCEPT !.kind = "nsq", !.name = Trim(items[2]),
                            !.topic = Trim(items[3])]

\* the constructors of deviceMap, by sink-type tag
deviceMap ==
    [t \in {"file", "stdout", "console", "nsq"} |->
        CASE t = "file" -> "createFileDevice"
          [] t = "stdout" -> "createStdoutDevice"
          [] t = "console" -> "createConsoleDevice"
          [] t = "nsq" -> "createNsqDevice"]

\* a call of the function value f; a nil function value panics
CallConstructor(f, args) ==
    CASE f = "createFileDevice" -> createFileDevice(args)
      [] f = "createStdoutDevice" -> createStdoutDevice(args)
      [] f = "createConsoleDevice" -> createConsoleDevice(args)
      [] f = "createNsqDevice" -> createNsqDevice(args)
      [] OTHER -> [ZeroDevice EXCEPT !.kind = "panic"]

\* strings.SplitN(define, ":", 2) on the descriptors of the model
SplitDefine(define) ==
    CASE define = "console" -> <<"console">>
      [] define = "stdout" -> <<"stdout">>
      [] define = "file:mylog" -> <<"file", "mylog">>
      [] define = "file_hour:mylog" -> <<"file_hour", "mylog">>
      [] define = "nsq:host:1234:name:topic" -> <<"nsq", "host:1234:name:topic">>
      [] define = "nsq:host:1234:name:topic:x" -> <<"nsq", "host:1234:name:topic:x">>
      [] define = "nsq:host:1234::topic" -> <<"nsq", "host:1234::topic">>
      [] define = "nsq:host:1234: :topic" -> <<"nsq", "host:1234: :topic">>
      [] define = "nsq:host:1234" -> <<"nsq", "host:1234">>
      [] OTHER -> <<define>>

\* deviceMap[name] of a missing key is the nil function
NewDevice(define) ==
    LET items == SplitDefine(define)
        name == items[1]
        args == IF Len(items) = 2 THEN items[2] ELSE ""
    IN CallConstructor(IF name \in DOMAIN deviceMap THEN deviceMap[name] ELSE "nil",
                       args)

NewWriter(level, device) == [level |-> level, device |-> NewDevice(device)]

\* ----------------------------------------------------------------- loggers
RECURSIVE UpdateLevelLoop(_, _, _)
UpdateLevelLoop(writers, i, minLevel) ==
    IF i > Len(writers) THEN minLevel
    ELSE UpdateLevelLoop(writers, i + 1,
            IF writers[i].level < minLevel THEN writers[i].level ELSE minLevel)

UpdateLevel(log) ==
    [log EXCEPT !.minLevel = UpdateLevelLoop(log.writers, 1, DISABLE)]

NewLogger(format, writers) ==
    UpdateLevel([minLevel |-> 0, format |-> format, writers |-> writers])

\* the value of a *Logger variable that holds no logger
NoLogger == [minLevel |-> -1, format |-> "none", writers |-> <<>>]

\* ------------------------------------------------------------------- state
VARIABLES
    defaultLogger,              \* the *Logger of the free functions
    loggerMap,                  \* map[string]*Logger
    userLogger,                 \* a logger a caller built with NewLogger
    buffs,                      \* the buffers resting in buffPool
    now,                        \* the wall clock, [date, time]
    lastDate, lastTime, lastDateTimeStr,
    proc,                       \* "running", "exited" (os.Exit) or "panicked"
    call,                       \* the last API call and its arguments
    ret,                        \* what that call returned
    delivered,                  \* the device.Write calls it made, in order
    defaultGoroutineCancelCh,   \* chan int, capacity 1
    defaultGoroutineCloseCh,    \* chan int, capacity 1
    wpc, wtodo,                 \* bgWorker goroutines: position, loggers left to flush
    ipc, iconfig, ii, ihasdefault,  \* Init goroutines: position and locals
    inits,                      \* Init calls started so far
    files,                      \* the log files: bucket -> [open, disk]
    osStdout,                   \* the records written to os.Stdout
    published,                  \* the messages the nsq producer published
    gor,                        \* goroutines in Logger.Write: position and locals
    appends,                    \* the writes made into a bufio.Writer
    dropped,                    \* the records a failed open dropped
    refreshes,                  \* the instants updateNow stored, where it runs store by store
    upc, ut,                    \* the goroutine in updateNow: position, its t
    fpc,                        \* the goroutine in Logger.Flush: position
    nfails, ncalls,             \* I/O failures and log calls so far
    heap,                       \* the *bytes.Buffer objects: their contents
    resting,                    \* the buffers that rest in buffs.pool
    held,                       \* the buffer each goroutine's log call holds
    handed,                     \* the bytes device writes were handed
    apc, ai, aold,              \* the goroutine in SetLevel: position, locals
    nsets                       \* SetLevel calls so far

registry == <<defaultLogger, loggerMap>>
clock == <<lastDate, lastTime, lastDateTimeStr>>
channels == <<defaultGoroutineCancelCh, defaultGoroutineCloseCh>>
workers == <<wpc, wtodo>>
initers == <<ipc, iconfig, ii, ihasdefault, inits>>
api == <<userLogger, buffs, proc, call, ret, delivered>>
race == <<heap, resting, held, handed, apc, ai, aold, nsets>>
ext == <<files, osStdout, published, gor, appends, dropped, refreshes,
         upc, ut, fpc, nfails, ncalls, race>>
vars == <<registry, clock, now, channels, workers, initers, api, ext>>

\* ------------------------------------------------------------ buffer pool
\* sync.Pool.Get: some resting buffer, or a new one when the pool is empty
\* or chooses to act as if it were (reuse = FALSE)
get(pool, reuse) ==
    IF reuse /\ Len(pool) > 0
    THEN [buff |-> Head(pool), pool |-> Tail(pool)]
    ELSE [buff |-> <<>>, pool |-> pool]

\* buf.Reset() then sync.Pool.Put, which may drop the buffer (here: when
\* MaxPool buffers rest already)
put(pool, buf) ==
    LET reset == SubSeq(buf, 1, 0)
    IN IF Len(pool) < MaxPool THEN Append(pool, reset) ELSE pool

\* DefaultFormatter.Format on the buffer it took from the pool
Format(level, msg, buff) ==
    buff \o <<getLevelStr(level), lastDateTimeStr, "] ", msg, "\n">>

\* --------------------------------------------------------------- the clock
\* the wall clock's date and time buckets
updateNow(t) ==
    [lastDate |-> t.date, lastTime |-> t.time,
     lastDateTimeStr |-> <<t.date % 10000, t.time>>]

\* ---------------------------------------------------------- Logger.Write
\* the loop of Logger.Write with > for >=
RECURSIVE FanOut_Strict(_, _, _)
FanOut_Strict(writers, i, level) ==
    IF i > Len(writers) THEN <<>>
    ELSE (IF level > writers[i].level THEN <<i>> ELSE <<>>)
            \o FanOut_Strict(writers, i + 1, level)

\* the loop of Logger.Write: the writers, by index, whose device gets the record
RECURSIVE FanOut(_, _, _)
FanOut(writers, i, level) ==
    IF i > Len(writers) THEN <<>>
    ELSE (IF level >= writers[i].level THEN <<i>> ELSE <<>>)
            \o FanOut(writers, i + 1, level)

\* Logger.Write without its first test
LoggerWrite_NoFastReject(log, level, msg, pool, reuse) ==
    LET g == get(pool, reuse)
        buff == Format(level, msg, g.buff)
    IN [delivered |-> FanOut(log.writers, 1, level),
        pool |-> put(g.pool, buff)]

\* the device writes of one Logger.Write and the pool it leaves
LoggerWrite(log, level, msg, pool, reuse) ==
    IF level < log.minLevel
    THEN [delivered |-> <<>>, pool |-> pool]
    ELSE LET g == get(pool, reuse)
             buff == Format(level, msg, g.buff)
         IN [delivered |-> FanOut(log.writers, 1, level),
             pool |-> put(g.pool, buff)]

\* ------------------------------------------------------------- GetLogger
\* GetLogger without its fallback
GetLogger_NoFallback(name) ==
    IF name \in DOMAIN loggerMap THEN loggerMap[name] ELSE NoLogger

GetLogger(name) ==
    IF name \in DOMAIN loggerMap THEN loggerMap[name] ELSE defaultLogger

\* -------------------------------------------------------------------- Init
\* the loop's pass with every "default" entry appended to defaultLogger
InitEntry_AppendDefault(st, logger) ==
    LET name == ToLower(logger.Name)
        writer == ToLower(logger.Writer)
        ok == IF name = "default" THEN TRUE
              ELSE name \in DOMAIN st.loggerMap
        w == NewWriter(getLevelFromStr(logger.Level), writer)
        log == IF ~ok
               THEN NewLogger("DefaultFormatter", <<w>>)
               ELSE LET old == IF name = "default" THEN st.defaultLogger
                               ELSE st.loggerMap[name]
                    IN UpdateLevel([old EXCEPT !.writers = Append(@, w)])
    IN IF name = "default"
       THEN [st EXCEPT !.defaultLogger = log, !.hasdefault = TRUE]
       ELSE [st EXCEPT !.loggerMap =
                [n \in DOMAIN st.loggerMap \cup {name} |->
                    IF n = name THEN log ELSE st.loggerMap[n]]]

\* one pass of Init's loop over the configuration; st carries defaultLogger,
\* loggerMap and the local hasdefault
InitEntry(st, logger) ==
    LET name == ToLower(logger.Name)
        writer == ToLower(logger.Writer)
        ok == IF name = "default" THEN st.hasdefault
              ELSE name \in DOMAIN st.loggerMap
        w == NewWriter(getLevelFromStr(logger.Level), writer)
        log == IF ~ok
               THEN NewLogger("DefaultFormatter", <<w>>)
               ELSE LET old == IF name = "default" THEN st.defaultLogger
                               ELSE st.loggerMap[name]
                    IN UpdateLevel([old EXCEPT !.writers = Append(@, w)])
    IN IF name = "default"
       THEN [st EXCEPT !.defaultLogger = log, !.hasdefault = TRUE]
       ELSE [st EXCEPT !.loggerMap =
                [n \in DOMAIN st.loggerMap \cup {name} |->
                    IF n = name THEN log ELSE st.loggerMap[n]]]

RECURSIVE InitLoop(_, _, _)
InitLoop(st, entries, i) ==
    IF i > Len(entries) THEN st
    ELSE InitLoop(InitEntry(st, entries[i]), entries, i + 1)

\* the registry Init(config) leaves; a nil config skips the loop
InitRegistry(dl, lm, config) ==
    LET st0 == [defaultLogger |-> dl, loggerMap |-> lm, hasdefault |-> FALSE]
    IN IF config.isNil THEN st0 ELSE InitLoop(st0, config.entries, 1)

\* ---------------------------------------------------------------- SetLevel
\* for _, writer := range log.writers { writer.level = newlevel }:
\* writer is the loop's own copy of the element
RECURSIVE RangeSetLevel(_, _, _)
RangeSetLevel(writers, i, newlevel) ==
    IF i > Len(writers) THEN writers
    ELSE LET writer == [writers[i] EXCEPT !.level = newlevel]
         IN RangeSetLevel(writers, i + 1, newlevel)

\* SetLevel resolving its name as GetLogger does
SetLevel_Fallback(dl, lm, name, index, level) ==
    LET same(e) == [err |-> e, defaultLogger |-> dl, loggerMap |-> lm]
        found == name \in DOMAIN lm
        log == IF found THEN lm[name] ELSE dl
        n == Len(log.writers)
        newlevel == getLevelFromStr(level)
    IN IF index >= n THEN same("index_out_of_bound")
       ELSE IF index # -1 /\ index < 0 THEN same("panic")
       ELSE LET ws == IF index = -1
                      THEN RangeSetLevel(log.writers, 1, newlevel)
                      ELSE [log.writers EXCEPT ![index + 1].level = newlevel]
                upd == UpdateLevel([log EXCEPT !.writers = ws])
            IN IF found
               THEN [err |-> "nil", defaultLogger |-> dl,
                     loggerMap |-> [lm EXCEPT ![name] = upd]]
               ELSE [err |-> "nil", defaultLogger |-> upd, loggerMap |-> lm]

\* SetLevel(name, index, level): what it returns and the registry it leaves;
\* err = "panic" is the run-time panic of an index expression out of range
SetLevel(dl, lm, name, index, level) ==
    LET same(e) == [err |-> e, defaultLogger |-> dl, loggerMap |-> lm]
    IN IF name # "default" /\ name \notin DOMAIN lm
       THEN same("name_not_found")
       ELSE LET log == IF name = "default" THEN dl ELSE lm[name]
                n == Len(log.writers)
                newlevel == getLevelFromStr(level)
            IN IF index >= n THEN same("index_out_of_bound")
               ELSE IF index # -1 /\ index < 0 THEN same("panic")
               ELSE LET ws == IF index = -1
                              THEN RangeSetLevel(log.writers, 1, newlevel)
                              ELSE [log.writers EXCEPT ![index + 1].level = newlevel]
                        upd == UpdateLevel([log EXCEPT !.writers = ws])
                    IN IF name = "default"
                       THEN [err |-> "nil", defaultLogger |-> upd, loggerMap |-> lm]
                       ELSE [err |-> "nil", defaultLogger |-> dl,
                             loggerMap |-> [lm EXCEPT ![name] = upd]]

\* ------------------------------------------------------- inputs of the API
SeqsUpTo(S, n) == UNION {[1 .. k -> S] : k \in 0 .. n}

LoggerDefines == [Name : ConfigNames, Level : LevelStrs, Writer : WriterDefs]

\* a nil slice, or a slice of up to MaxConfig entries
Configs ==
    {[isNil |-> TRUE, entries |-> <<>>]}
        \cup [isNil : {FALSE}, entries : SeqsUpTo(LoggerDefines, MaxConfig)]

NoConfig == [isNil |-> TRUE, entries |-> <<>>]

NoCall ==
    [op |-> "none", via |-> "", name |-> "", index |-> 0, level |-> 0,
     levelStr |-> "", fatal |-> FALSE, config |-> NoConfig, target |-> NoLogger]

\* no logger of the registry st is beyond MaxWriters writers
Fits(st) ==
    /\ Len(st.defaultLogger.writers) <= MaxWriters
    /\ \A n \in DOMAIN st.loggerMap : Len(st.loggerMap[n].writers) <= MaxWriters

\* ----------------------------------------------------------- initial state
\* package initialisation: the built-in default logger, an empty map, a zero
\* clock cache, empty channels and the bgWorker that init() started
Workers == 1 .. NumWorkers
Callers == 1 .. NumCallers
Goroutines == 1 .. NumGoroutines
\* the *bytes.Buffer objects there can be at once: one per goroutine in
\* Logger.Write and those resting in the pool
Buffers == 1 .. NumGoroutines + MaxPool

\* the record of a log call: its number and the bytes Format rendered
NoRecord == [id |-> 0, bytes |-> <<>>]

\* a goroutine outside Logger.Write; ldate and ltime are the locals of
\* FileDevice.Write, -1 before they are assigned
NoGoroutine ==
    [pc |-> "idle", level |-> 0, p |-> NoRecord, i |-> 0, buff |-> <<>>,
     ldate |-> -1, ltime |-> -1, date |-> 0,
     len |-> 0, q |-> {}, got |-> {}, puts |-> 0]

Start ==
    /\ defaultLogger = NewLogger("DefaultFormatter", <<NewWriter(DEBUG, "console")>>)
    /\ loggerMap = <<>>
    /\ userLogger = NoLogger
    /\ buffs = <<>>
    /\ now = [date |-> 1, time |-> 0]
    /\ lastDate = 0
    /\ lastTime = 0
    /\ lastDateTimeStr = <<>>
    /\ proc = "running"
    /\ call = NoCall
    /\ ret = ""
    /\ delivered = <<>>
    /\ defaultGoroutineCancelCh = <<>>
    /\ defaultGoroutineCloseCh = <<>>
    /\ wpc = [w \in Workers |-> IF w = 1 THEN "start" ELSE "none"]
    /\ wtodo = [w \in Workers |-> {}]
    /\ ipc = [c \in Callers |-> "idle"]
    /\ iconfig = [c \in Callers |-> NoConfig]
    /\ ii = [c \in Callers |-> 0]
    /\ ihasdefault = [c \in Callers |-> FALSE]
    /\ inits = 0
    /\ files = <<>>
    /\ osStdout = {}
    /\ published = {}
    /\ gor = [g \in Goroutines |-> NoGoroutine]
    /\ appends = {}
    /\ dropped = {}
    /\ refreshes = {}
    /\ upc = "idle"
    /\ ut = [date |-> 0, time |-> 0]
    /\ fpc = [pc |-> "idle", i |-> 0]
    /\ nfails = 0
    /\ ncalls = 0
    /\ heap = [id \in Buffers |-> <<>>]
    /\ resting = {}
    /\ held = [g \in Goroutines |-> 0]
    /\ handed = {}
    /\ apc = "idle"
    /\ ai = 0
    /\ aold = <<>>
    /\ nsets = 0

\* ------------------------------------------------- the API, call by call
\* Init(config), start to end: the stop handshake with the running
\* bgWorker, the loop over the configuration, updateNow, a new bgWorker
Init(config) ==
    /\ proc = "running"
    /\ \E st \in {InitRegistry(defaultLogger, loggerMap, config)},
          t \in {updateNow(now)} :
          /\ Fits(st)
          /\ defaultLogger' = st.defaultLogger
          /\ loggerMap' = st.loggerMap
          /\ lastDate' = t.lastDate
          /\ lastTime' = t.lastTime
          /\ lastDateTimeStr' = t.lastDateTimeStr
    /\ call' = [NoCall EXCEPT !.op = "Init", !.config = config]
    /\ ret' = ""
    /\ delivered' = <<>>
    /\ UNCHANGED <<ext, now, channels, workers, initers, userLogger, buffs, proc>>

\* SetLevel(name, index, level)
SetLevelCall(name, index, level) ==
    /\ proc = "running"
    /\ \E r \in {SetLevel(defaultLogger, loggerMap, name, index, level)} :
          /\ defaultLogger' = r.defaultLogger
          /\ loggerMap' = r.loggerMap
          /\ ret' = r.err
          /\ proc' = IF r.err = "panic" THEN "panicked" ELSE proc
    /\ call' = [NoCall EXCEPT !.op = "SetLevel", !.name = name,
                              !.index = index, !.levelStr = level]
    /\ delivered' = <<>>
    /\ UNCHANGED <<ext, clock, now, channels, workers, initers, userLogger, buffs>>

\* userLogger = NewLogger(&DefaultFormatter{}, NewWriter(levels[1], "console"), ...)
NewLoggerCall(levels) ==
    /\ proc = "running"
    /\ userLogger' = NewLogger("DefaultFormatter",
                        [i \in 1 .. Len(levels) |-> NewWriter(levels[i], "console")])
    /\ call' = [NoCall EXCEPT !.op = "NewLogger"]
    /\ ret' = ""
    /\ delivered' = <<>>
    /\ UNCHANGED <<ext, registry, clock, now, channels, workers, initers, buffs, proc>>

\* a Fatal that exits only when a device took the record
LogCall_ExitIfDelivered(via, name, log, level, fatal, msg, reuse) ==
    /\ proc = "running"
    /\ \E w \in {LoggerWrite(log, level, msg, buffs, reuse)} :
          /\ delivered' = w.delivered
          /\ buffs' = w.pool
    /\ proc' = IF fatal /\ LoggerWrite(log, level, msg, buffs, reuse).delivered # <<>>
               THEN "exited" ELSE proc
    /\ call' = [NoCall EXCEPT !.op = "Write", !.via = via, !.name = name,
                              !.level = level, !.fatal = fatal, !.target = log]
    /\ ret' = ""
    /\ UNCHANGED <<ext, registry, clock, now, channels, workers, initers, userLogger>>

\* log.Write(level, msg) and, for the Fatal functions, os.Exit(1) after it
LogCall(via, name, log, level, fatal, msg, reuse) ==
    /\ proc = "running"
    /\ \E w \in {LoggerWrite(log, level, msg, buffs, reuse)} :
          /\ delivered' = w.delivered
          /\ buffs' = w.pool
    /\ proc' = IF fatal THEN "exited" ELSE proc
    /\ call' = [NoCall EXCEPT !.op = "Write", !.via = via, !.name = name,
                              !.level = level, !.fatal = fatal, !.target = log]
    /\ ret' = ""
    /\ UNCHANGED <<ext, registry, clock, now, channels, workers, initers, userLogger>>

\* the free functions Debug, Info, Warn, Error and Fatal
FreeLog(level, msg, reuse) ==
    /\ level \in {DEBUG, INFO, WARN, ERROR, FATAL}
    /\ LogCall("free", "", defaultLogger, level, level = FATAL, msg, reuse)

\* GetLogger(name).Write(level, ...) and GetLogger(name).Fatal(...)
LoggerLog(name, level, fatal, msg, reuse) ==
    /\ fatal => level = FATAL
    /\ LogCall("get", name, GetLogger(name), level, fatal, msg, reuse)

\* userLogger.Write(level, ...)
UserLog(level, msg, reuse) ==
    /\ userLogger # NoLogger
    /\ LogCall("user", "", userLogger, level, FALSE, msg, reuse)

\* userLogger.Fatal(...)
UserFatal(msg, reuse) ==
    /\ userLogger # NoLogger
    /\ LogCall("user", "", userLogger, FATAL, TRUE, msg, reuse)

Next ==
    \/ \E config \in Configs : Init(config)
    \/ \E name \in LookupNames, index \in Indexes, level \in LevelStrs :
            SetLevelCall(name, index, level)
    \/ \E level \in Levels, msg \in Msgs, reuse \in BOOLEAN :
            FreeLog(level, msg, reuse)
    \/ \E name \in LookupNames, level \in Levels, fatal \in BOOLEAN,
          msg \in Msgs, reuse \in BOOLEAN :
            LoggerLog(name, level, fatal, msg, reuse)

Spec == Start /\ [][Next]_vars

\* a caller's own logger: NewLogger and the calls on it, next to the free
\* functions on the built-in default logger
NextUser ==
    \/ \E levels \in SeqsUpTo(UserLevels, MaxWriters) : NewLoggerCall(levels)
    \/ \E level \in Levels, msg \in Msgs, reuse \in BOOLEAN :
            UserLog(level, msg, reuse)
    \/ \E msg \in Msgs, reuse \in BOOLEAN : UserFatal(msg, reuse)
    \/ \E level \in Levels, msg \in Msgs, reuse \in BOOLEAN :
            FreeLog(level, msg, reuse)

SpecUser == Start /\ [][NextUser]_vars

\* ------------------------------------ Init and bgWorker, step by step
\* configurations of the handshake runs
HandshakeConfigs ==
    { NoConfig,
      [isNil |-> FALSE,
       entries |-> << [Name |-> "default", Level |-> "Error", Writer |-> "console"],
                      [Name |-> "default", Level |-> "D", Writer |-> "console"] >>],
      [isNil |-> FALSE,
       entries |-> << [Name |-> "App", Level |-> "disable", Writer |-> "console"] >>] }

\* a bgWorker that can still refresh the clock cache or flush: started and
\* not yet past its acknowledgment
Live(w) == wpc[w] \notin {"none", "stop"}

\* an Init between its receipt of the acknowledgment and its go statement
Mutating(c) == ipc[c] \in {"loop", "updateNow", "go"}

\* Device.Flush of a console device: an empty method
DeviceFlush(device) == device

\* Logger.Flush
Flush(log) ==
    [log EXCEPT !.writers =
        [i \in DOMAIN log.writers |->
            [log.writers[i] EXCEPT !.device = DeviceFlush(@)]]]

\* the wall clock moves on
Tick ==
    /\ now.time < MaxTime
    /\ now' = [now EXCEPT !.time = @ + 1]
    /\ UNCHANGED <<ext, registry, clock, channels, workers, initers, api>>

\* bgWorker: updateNow(); timer := time.NewTicker(...)
WorkerStart(w) ==
    /\ wpc[w] = "start"
    /\ \E t \in {updateNow(now)} :
          /\ lastDate' = t.lastDate
          /\ lastTime' = t.lastTime
          /\ lastDateTimeStr' = t.lastDateTimeStr
    /\ wpc' = [wpc EXCEPT ![w] = "select"]
    /\ UNCHANGED <<ext, registry, now, channels, wtodo, initers, api>>

\* the cancel case that returns without the acknowledgment
WorkerCancel_NoAck(w) ==
    /\ wpc[w] = "select"
    /\ Len(defaultGoroutineCancelCh) > 0
    /\ defaultGoroutineCancelCh' = Tail(defaultGoroutineCancelCh)
    /\ wpc' = [wpc EXCEPT ![w] = "stop"]
    /\ UNCHANGED <<ext, registry, clock, now, defaultGoroutineCloseCh, wtodo, initers, api>>

\* case <-defaultGoroutineCancelCh
WorkerCancel(w) ==
    /\ wpc[w] = "select"
    /\ Len(defaultGoroutineCancelCh) > 0
    /\ defaultGoroutineCancelCh' = Tail(defaultGoroutineCancelCh)
    /\ wpc' = [wpc EXCEPT ![w] = "ack"]
    /\ UNCHANGED <<ext, registry, clock, now, defaultGoroutineCloseCh, wtodo, initers, api>>

\* the acknowledgment without the return after it
WorkerAck_NoReturn(w) ==
    /\ wpc[w] = "ack"
    /\ Len(defaultGoroutineCloseCh) < ChanCap
    /\ defaultGoroutineCloseCh' = Append(defaultGoroutineCloseCh, 1)
    /\ wpc' = [wpc EXCEPT ![w] = "select"]
    /\ UNCHANGED <<ext, registry, clock, now, defaultGoroutineCancelCh, wtodo, initers, api>>

\* defaultGoroutineCloseCh <- 1
WorkerAck(w) ==
    /\ wpc[w] = "ack"
    /\ Len(defaultGoroutineCloseCh) < ChanCap
    /\ defaultGoroutineCloseCh' = Append(defaultGoroutineCloseCh, 1)
    /\ wpc' = [wpc EXCEPT ![w] = "stop"]
    /\ UNCHANGED <<ext, registry, clock, now, defaultGoroutineCancelCh, wtodo, initers, api>>

\* timer.Stop(); return
WorkerReturn(w) ==
    /\ wpc[w] = "stop"
    /\ wpc' = [wpc EXCEPT ![w] = "none"]
    /\ UNCHANGED <<ext, registry, clock, now, channels, wtodo, initers, api>>

\* case <-timer.C
WorkerTimer(w) ==
    /\ wpc[w] = "select"
    /\ wpc' = [wpc EXCEPT ![w] = "refresh"]
    /\ UNCHANGED <<ext, registry, clock, now, channels, wtodo, initers, api>>

\* updateNow()
WorkerRefresh(w) ==
    /\ wpc[w] = "refresh"
    /\ \E t \in {updateNow(now)} :
          /\ lastDate' = t.lastDate
          /\ lastTime' = t.lastTime
          /\ lastDateTimeStr' = t.lastDateTimeStr
    /\ wpc' = [wpc EXCEPT ![w] = "flushDefault"]
    /\ UNCHANGED <<ext, registry, now, channels, wtodo, initers, api>>

\* defaultLogger.Flush(), then the range over loggerMap begins
WorkerFlushDefault(w) ==
    /\ wpc[w] = "flushDefault"
    /\ defaultLogger' = Flush(defaultLogger)
    /\ wtodo' = [wtodo EXCEPT ![w] = DOMAIN loggerMap]
    /\ wpc' = [wpc EXCEPT ![w] = "flushMap"]
    /\ UNCHANGED <<ext, loggerMap, clock, now, channels, initers, api>>

\* one pass of: for _, log := range loggerMap { log.Flush() }
WorkerFlushMap(w) ==
    /\ wpc[w] = "flushMap"
    /\ \E n \in wtodo[w] \cap DOMAIN loggerMap :
          /\ loggerMap' = [loggerMap EXCEPT ![n] = Flush(@)]
          /\ wtodo' = [wtodo EXCEPT ![w] = @ \ {n}]
    /\ UNCHANGED <<ext, defaultLogger, clock, now, channels, wpc, initers, api>>

\* the range is over: back to the select
WorkerFlushEnd(w) ==
    /\ wpc[w] = "flushMap"
    /\ wtodo[w] = {}
    /\ wpc' = [wpc EXCEPT ![w] = "select"]
    /\ UNCHANGED <<ext, registry, clock, now, channels, wtodo, initers, api>>

\* a goroutine calls Init(config)
InitBegin(c, config) ==
    /\ ipc[c] = "idle"
    /\ inits < MaxInits
    /\ inits' = inits + 1
    /\ iconfig' = [iconfig EXCEPT ![c] = config]
    /\ ipc' = [ipc EXCEPT ![c] = "send"]
    /\ UNCHANGED <<ext, registry, clock, now, channels, workers, ii, ihasdefault, api>>

\* defaultGoroutineCancelCh <- 1
InitSendCancel(c) ==
    /\ ipc[c] = "send"
    /\ Len(defaultGoroutineCancelCh) < ChanCap
    /\ defaultGoroutineCancelCh' = Append(defaultGoroutineCancelCh, 1)
    /\ ipc' = [ipc EXCEPT ![c] = "recv"]
    /\ UNCHANGED <<ext, registry, clock, now, defaultGoroutineCloseCh, workers,
                   iconfig, ii, ihasdefault, inits, api>>

\* <-defaultGoroutineCloseCh
InitRecvClose(c) ==
    /\ ipc[c] = "recv"
    /\ Len(defaultGoroutineCloseCh) > 0
    /\ defaultGoroutineCloseCh' = Tail(defaultGoroutineCloseCh)
    /\ ii' = [ii EXCEPT ![c] = 1]
    /\ ihasdefault' = [ihasdefault EXCEPT ![c] = FALSE]
    /\ ipc' = [ipc EXCEPT ![c] = "loop"]
    /\ UNCHANGED <<ext, registry, clock, now, defaultGoroutineCancelCh, workers,
                   iconfig, inits, api>>

\* one pass of: for _, logger := range config
InitLoopStep(c) ==
    /\ ipc[c] = "loop"
    /\ ~iconfig[c].isNil
    /\ ii[c] <= Len(iconfig[c].entries)
    /\ \E st \in {InitEntry([defaultLogger |-> defaultLogger,
                             loggerMap |-> loggerMap,
                             hasdefault |-> ihasdefault[c]],
                            iconfig[c].entries[ii[c]])} :
          /\ defaultLogger' = st.defaultLogger
          /\ loggerMap' = st.loggerMap
          /\ ihasdefault' = [ihasdefault EXCEPT ![c] = st.hasdefault]
    /\ ii' = [ii EXCEPT ![c] = @ + 1]
    /\ UNCHANGED <<ext, clock, now, channels, workers, ipc, iconfig, inits, api>>

\* config is nil, or the range is over
InitLoopEnd(c) ==
    /\ ipc[c] = "loop"
    /\ iconfig[c].isNil \/ ii[c] > Len(iconfig[c].entries)
    /\ ipc' = [ipc EXCEPT ![c] = "updateNow"]
    /\ UNCHANGED <<ext, registry, clock, now, channels, workers,
                   iconfig, ii, ihasdefault, inits, api>>

\* updateNow()
InitUpdateNow(c) ==
    /\ ipc[c] = "updateNow"
    /\ \E t \in {updateNow(now)} :
          /\ lastDate' = t.lastDate
          /\ lastTime' = t.lastTime
          /\ lastDateTimeStr' = t.lastDateTimeStr
    /\ ipc' = [ipc EXCEPT ![c] = "go"]
    /\ UNCHANGED <<ext, registry, now, channels, workers,
                   iconfig, ii, ihasdefault, inits, api>>

\* go bgWorker(), and Init returns
InitGo(c) ==
    /\ ipc[c] = "go"
    /\ \E w \in Workers :
          /\ wpc[w] = "none"
          /\ \A v \in Workers : wpc[v] = "none" => w <= v
          /\ wpc' = [wpc EXCEPT ![w] = "start"]
    /\ ipc' = [ipc EXCEPT ![c] = "idle"]
    /\ UNCHANGED <<ext, registry, clock, now, channels, wtodo,
                   iconfig, ii, ihasdefault, inits, api>>

NextHandshake ==
    \/ Tick
    \/ \E w \in Workers :
          \/ WorkerStart(w)
          \/ WorkerCancel(w)
          \/ WorkerAck(w)
          \/ WorkerReturn(w)
          \/ WorkerTimer(w)
          \/ WorkerRefresh(w)
          \/ WorkerFlushDefault(w)
          \/ WorkerFlushMap(w)
          \/ WorkerFlushEnd(w)
    \/ \E c \in Callers :
          \/ \E config \in HandshakeConfigs : InitBegin(c, config)
          \/ InitSendCancel(c)
          \/ InitRecvClose(c)
          \/ InitLoopStep(c)
          \/ InitLoopEnd(c)
          \/ InitUpdateNow(c)
          \/ InitGo(c)

SpecHandshake == Start /\ [][NextHandshake]_vars

\* fair scheduling: a goroutine that can take its next step takes it; a
\* goroutine waiting on a channel is served when the channel is ready again
\* and again (the channels queue their waiters, and select picks among its
\* ready cases at random).  No goroutine has to call Init, and the ticker
\* does not have to fire.
FairWorker(w) ==
    /\ WF_vars(WorkerStart(w))
    /\ SF_vars(WorkerCancel(w))
    /\ SF_vars(WorkerAck(w))
    /\ WF_vars(WorkerReturn(w))
    /\ WF_vars(WorkerRefresh(w))
    /\ WF_vars(WorkerFlushDefault(w))
    /\ WF_vars(WorkerFlushMap(w))
    /\ WF_vars(WorkerFlushEnd(w))

FairCaller(c) ==
    /\ SF_vars(InitSendCancel(c))
    /\ SF_vars(InitRecvClose(c))
    /\ WF_vars(InitLoopStep(c))
    /\ WF_vars(InitLoopEnd(c))
    /\ WF_vars(InitUpdateNow(c))
    /\ WF_vars(InitGo(c))

SpecHandshakeFair ==
    /\ SpecHandshake
    /\ \A w \in Workers : FairWorker(w)
    /\ \A c \in Callers : FairCaller(c)

\* ------------------- devices under concurrent log calls, step by step
\* sink descriptors handed to NewWriter
DeviceDefs ==
    {"console", "stdout", "file:mylog", "file_hour:mylog", "syslog",
     "nsq:host:1234:name:topic", "nsq:host:1234:name:topic:x",
     "nsq:host:1234", "nsq:host:1234::topic", "nsq:host:1234: :topic"}
\* levels of the log calls
DeviceLevels == {INFO, ERROR}

Dev(i) == userLogger.writers[i].device
SetDev(i, d) == [userLogger EXCEPT !.writers[i].device = d]

\* os.OpenFile(name, O_APPEND|O_WRONLY|O_CREATE): one more handle on the
\* file of the bucket, created empty when it is not there
OpenFile(fs, b) ==
    [x \in DOMAIN fs \cup {b} |->
        IF x = b
        THEN IF b \in DOMAIN fs THEN [fs[b] EXCEPT !.handles = @ + 1]
             ELSE [handles |-> 1, disk |-> <<>>]
        ELSE fs[x]]

\* (*os.File).Close
CloseFile(fs, b) == [fs EXCEPT ![b].handles = @ - 1]

\* (*bufio.Writer).Flush over a log file: the buffered records reach the
\* file when it is open; on a closed file the write fails and they stay
FlushWriter(fs, w) ==
    IF w.buf = <<>> \/ w.file \notin DOMAIN fs THEN [files |-> fs, writer |-> w]
    ELSE IF fs[w.file].handles = 0 THEN [files |-> fs, writer |-> w]
    ELSE [files |-> [fs EXCEPT ![w.file].disk = @ \o w.buf],
          writer |-> [w EXCEPT !.buf = <<>>]]

\* the instants the wall clock shows: midnights, and the full hours
Days == {[date |-> d, time |-> 0] : d \in 1 .. MaxDate}
Hours == {[date |-> d, time |-> h * 10000] : d \in 1 .. MaxDate, h \in 0 .. MaxHour}

\* the instants of S that are not before the last reading of the wall clock
Later(S) ==
    {t \in S : t.date > now.date \/ (t.date = now.date /\ t.time >= now.time)}

\* updateNow: t := time.Now(), the wall clock having moved on to t;
\* atomic.StoreUint32(&lastDate, dt)
UpdateNowDate(t) ==
    /\ proc = "running"
    /\ upc = "idle"
    /\ now' = t
    /\ ut' = t
    /\ lastDate' = updateNow(t).lastDate
    /\ refreshes' = refreshes \cup {t}
    /\ upc' = "time"
    /\ UNCHANGED <<registry, lastTime, lastDateTimeStr, channels, workers,
                   initers, api, race, files, osStdout, published, gor, appends,
                   dropped, fpc, nfails, ncalls>>

\* atomic.StoreUint32(&lastTime, tm)
UpdateNowTime ==
    /\ proc = "running"
    /\ upc = "time"
    /\ lastTime' = updateNow(ut).lastTime
    /\ upc' = "str"
    /\ UNCHANGED <<registry, lastDate, lastDateTimeStr, now, channels, workers,
                   initers, api, race, files, osStdout, published, gor, appends,
                   dropped, refreshes, ut, fpc, nfails, ncalls>>

\* lastDateTimeStr = fmt.Sprintf("%04d %06d", dt%10000, tm)
UpdateNowStr ==
    /\ proc = "running"
    /\ upc = "str"
    /\ lastDateTimeStr' = updateNow(ut).lastDateTimeStr
    /\ upc' = "idle"
    /\ UNCHANGED <<registry, lastDate, lastTime, now, channels, workers,
                   initers, api, race, files, osStdout, published, gor, appends,
                   dropped, refreshes, ut, fpc, nfails, ncalls>>

\* what the device actions leave alone
deviceRest == <<registry, clock, now, channels, workers, initers,
                call, ret, delivered, refreshes, upc, ut, race>>

\* userLogger = NewLogger(&DefaultFormatter{}, NewWriter(DEBUG, define),
\*                        NewWriter(WARN, "console"))
BuildLogger(define) ==
    /\ proc = "running"
    /\ userLogger = NoLogger
    /\ \E w \in {NewWriter(DEBUG, define)} :
          /\ proc' = CASE w.device.kind = "panic" -> "panicked"
                       [] w.device.kind = "exit" -> "exited"
                       [] OTHER -> proc
          /\ userLogger' = IF w.device.kind \in {"panic", "exit"} THEN userLogger
                           ELSE NewLogger("DefaultFormatter",
                                          <<w, NewWriter(WARN, "console")>>)
    /\ call' = [NoCall EXCEPT !.op = "NewWriter", !.name = define]
    /\ UNCHANGED <<registry, clock, now, channels, workers, initers, race,
                   ret, delivered, refreshes, upc, ut, buffs, files, osStdout,
                   published, gor, appends, dropped, fpc, nfails, ncalls>>

\* the same with the device createFileHourDevice returns, which the
\* deviceMap of log.go does not register
BuildHourLogger(args) ==
    /\ proc = "running"
    /\ userLogger = NoLogger
    /\ userLogger' = NewLogger("DefaultFormatter",
                        << [level |-> DEBUG, device |-> createFileHourDevice(args)],
                           NewWriter(WARN, "console") >>)
    /\ UNCHANGED <<deviceRest, buffs, proc, files, osStdout, published, gor,
                   appends, dropped, fpc, nfails, ncalls>>

\* Logger.Write up to its loop: the first test, then Format
WriteBegin(g, level, msg, reuse) ==
    /\ proc = "running"
    /\ userLogger # NoLogger
    /\ gor[g].pc = "idle"
    /\ ncalls < MaxCalls
    /\ ncalls' = ncalls + 1
    /\ IF level < userLogger.minLevel
       THEN UNCHANGED <<gor, buffs>>
       ELSE \E b \in {get(buffs, reuse)} :
              /\ buffs' = b.pool
              /\ gor' = [gor EXCEPT ![g] =
                    [NoGoroutine EXCEPT
                        !.pc = "loop", !.level = level, !.i = 1,
                        !.buff = Format(level, msg, b.buff),
                        !.p = [id |-> ncalls + 1,
                               bytes |-> Format(level, msg, b.buff)]]]
    /\ UNCHANGED <<deviceRest, userLogger, proc, files, osStdout, published,
                   appends, dropped, fpc, nfails>>

\* the writer at hand in the loop of Logger.Write takes the record
Qualifies(g, kind) ==
    /\ proc = "running"
    /\ gor[g].pc = "loop"
    /\ gor[g].i <= Len(userLogger.writers)
    /\ gor[g].level >= userLogger.writers[gor[g].i].level
    /\ Dev(gor[g].i).kind = kind

\* level < writer.level: on to the next writer
LoopSkip(g) ==
    /\ proc = "running"
    /\ gor[g].pc = "loop"
    /\ gor[g].i <= Len(userLogger.writers)
    /\ gor[g].level < userLogger.writers[gor[g].i].level
    /\ gor' = [gor EXCEPT ![g].i = @ + 1]
    /\ UNCHANGED <<deviceRest, userLogger, buffs, proc, files, osStdout,
                   published, appends, dropped, fpc, nfails, ncalls>>

\* ConsoleDevice.Write
ConsoleWrite(g) ==
    /\ Qualifies(g, "console")
    /\ osStdout' = osStdout \cup {gor[g].p}
    /\ gor' = [gor EXCEPT ![g].i = @ + 1]
    /\ UNCHANGED <<deviceRest, userLogger, buffs, proc, files, published,
                   appends, dropped, fpc, nfails, ncalls>>

\* StdoutDevice.Write
StdoutWrite(g) ==
    /\ Qualifies(g, "stdout")
    /\ userLogger' = SetDev(gor[g].i,
                        [Dev(gor[g].i) EXCEPT !.writer.buf = Append(@, gor[g].p)])
    /\ gor' = [gor EXCEPT ![g].i = @ + 1]
    /\ UNCHANGED <<deviceRest, buffs, proc, files, osStdout, published,
                   appends, dropped, fpc, nfails, ncalls>>

\* NsqDevice.Write: name, '|' and the record, published under the topic;
\* a failed Publish is printed and the message lost
NsqWrite(g, ok, reuse) ==
    /\ Qualifies(g, "nsq")
    /\ ok \/ nfails < MaxFails
    /\ \E b \in {get(buffs, reuse)} :
        \E body \in {b.buff \o <<Dev(gor[g].i).name, "|", gor[g].p>>} :
          /\ published' = IF ok
                          THEN published \cup
                                  {[topic |-> Dev(gor[g].i).topic, body |-> body]}
                          ELSE published
          /\ buffs' = put(b.pool, body)
    /\ nfails' = IF ok THEN nfails ELSE nfails + 1
    /\ gor' = [gor EXCEPT ![g].i = @ + 1]
    /\ UNCHANGED <<deviceRest, userLogger, proc, files, osStdout,
                   appends, dropped, fpc, ncalls>>

\* FileDevice.Write: ldate := atomic.LoadUint32(&lastDate), and date for
\* every rorate but HourRorate
FLoad(g) ==
    /\ Qualifies(g, "file")
    /\ gor' = [gor EXCEPT ![g] =
          IF Dev(gor[g].i).rorate = HourRorate
          THEN [@ EXCEPT !.pc = "fltime", !.ldate = lastDate]
          ELSE [@ EXCEPT !.pc = "flock", !.ldate = lastDate, !.date = lastDate]]
    /\ UNCHANGED <<deviceRest, userLogger, buffs, proc, files, osStdout,
                   published, appends, dropped, fpc, nfails, ncalls>>

\* ltime := atomic.LoadUint32(&lastTime); date = ldate*100 + ltime/10000
FLoadTime(g) ==
    /\ proc = "running"
    /\ gor[g].pc = "fltime"
    /\ gor' = [gor EXCEPT ![g] =
          [@ EXCEPT !.pc = "flock", !.ltime = lastTime,
                    !.date = gor[g].ldate * 100 + lastTime \div 10000]]
    /\ UNCHANGED <<deviceRest, userLogger, buffs, proc, files, osStdout,
                   published, appends, dropped, fpc, nfails, ncalls>>

\* file.lock.Lock() that does not wait
FLock_NoWait(g) ==
    /\ proc = "running"
    /\ gor[g].pc = "flock"
    /\ userLogger' = SetDev(gor[g].i, [Dev(gor[g].i) EXCEPT !.lock = TRUE])
    /\ gor' = [gor EXCEPT ![g].pc = "fcheck"]
    /\ UNCHANGED <<deviceRest, buffs, proc, files, osStdout, published,
                   appends, dropped, fpc, nfails, ncalls>>

\* file.lock.Lock()
FLock(g) ==
    /\ proc = "running"
    /\ gor[g].pc = "flock"
    /\ ~Dev(gor[g].i).lock
    /\ userLogger' = SetDev(gor[g].i, [Dev(gor[g].i) EXCEPT !.lock = TRUE])
    /\ gor' = [gor EXCEPT ![g].pc = "fcheck"]
    /\ UNCHANGED <<deviceRest, buffs, proc, files, osStdout, published,
                   appends, dropped, fpc, nfails, ncalls>>

\* the rotation test that closes the file without flushing its writer
FCheck_NoFlush(g) ==
    /\ proc = "running"
    /\ gor[g].pc = "fcheck"
    /\ \E d \in {Dev(gor[g].i)} :
          IF d.lastdate # gor[g].date /\ d.file # NilFile
          THEN /\ files' = CloseFile(files, d.file)
               /\ userLogger' = SetDev(gor[g].i, [d EXCEPT !.file = NilFile])
          ELSE UNCHANGED <<files, userLogger>>
    /\ gor' = [gor EXCEPT ![g].pc = "ftest"]
    /\ UNCHANGED <<deviceRest, buffs, proc, osStdout, published,
                   appends, dropped, fpc, nfails, ncalls>>

\* if file.lastdate != date { if file.file != nil { Flush, Close, nil } };
\* a failed Close is printed only
FCheck(g) ==
    /\ proc = "running"
    /\ gor[g].pc = "fcheck"
    /\ \E d \in {Dev(gor[g].i)} :
          IF d.lastdate # gor[g].date /\ d.file # NilFile
          THEN \E f \in {FlushWriter(files, d.writer)} :
                  /\ files' = CloseFile(f.files, d.file)
                  /\ userLogger' = SetDev(gor[g].i,
                        [d EXCEPT !.writer = f.writer, !.file = NilFile])
          ELSE UNCHANGED <<files, userLogger>>
    /\ gor' = [gor EXCEPT ![g].pc = "ftest"]
    /\ UNCHANGED <<deviceRest, buffs, proc, osStdout, published,
                   appends, dropped, fpc, nfails, ncalls>>

\* file.file != nil: no open
FHasFile(g) ==
    /\ proc = "running"
    /\ gor[g].pc = "ftest"
    /\ Dev(gor[g].i).file # NilFile
    /\ gor' = [gor EXCEPT ![g].pc = "fwrite"]
    /\ UNCHANGED <<deviceRest, userLogger, buffs, proc, files, osStdout,
                   published, appends, dropped, fpc, nfails, ncalls>>

\* file.file == nil and os.OpenFile succeeds: the writer and lastdate follow
FOpen(g) ==
    /\ proc = "running"
    /\ gor[g].pc = "ftest"
    /\ Dev(gor[g].i).file = NilFile
    /\ files' = OpenFile(files, gor[g].date)
    /\ userLogger' = SetDev(gor[g].i,
          [Dev(gor[g].i) EXCEPT !.file = gor[g].date,
                                !.writer = NewBufio(gor[g].date),
                                !.lastdate = gor[g].date])
    /\ gor' = [gor EXCEPT ![g].pc = "fwrite"]
    /\ UNCHANGED <<deviceRest, buffs, proc, osStdout, published,
                   appends, dropped, fpc, nfails, ncalls>>

\* the failed open that returns with the lock held
FOpenFail_NoUnlock(g) ==
    /\ proc = "running"
    /\ gor[g].pc = "ftest"
    /\ Dev(gor[g].i).file = NilFile
    /\ nfails < MaxFails
    /\ nfails' = nfails + 1
    /\ dropped' = dropped \cup {gor[g].p}
    /\ gor' = [gor EXCEPT ![g].pc = "loop", ![g].i = @ + 1]
    /\ UNCHANGED <<deviceRest, userLogger, buffs, proc, files, osStdout,
                   published, appends, fpc, ncalls>>

\* file.file == nil and os.OpenFile fails: file.file is the nil it
\* returned, Unlock, the error printed, return
FOpenFail(g) ==
    /\ proc = "running"
    /\ gor[g].pc = "ftest"
    /\ Dev(gor[g].i).file = NilFile
    /\ nfails < MaxFails
    /\ nfails' = nfails + 1
    /\ userLogger' = SetDev(gor[g].i,
          [Dev(gor[g].i) EXCEPT !.file = NilFile, !.lock = FALSE])
    /\ dropped' = dropped \cup {gor[g].p}
    /\ gor' = [gor EXCEPT ![g].pc = "loop", ![g].i = @ + 1]
    /\ UNCHANGED <<deviceRest, buffs, proc, files, osStdout, published,
                   appends, fpc, ncalls>>

\* file.writer.Write(p); through a nil writer it panics
FWrite(g) ==
    /\ proc = "running"
    /\ gor[g].pc = "fwrite"
    /\ \E d \in {Dev(gor[g].i)} :
          IF d.writer.isNil
          THEN /\ proc' = "panicked"
               /\ UNCHANGED <<userLogger, appends, gor>>
          ELSE /\ userLogger' = SetDev(gor[g].i,
                     [d EXCEPT !.writer.buf = Append(@, gor[g].p)])
               /\ appends' = appends \cup
                     {[p |-> gor[g].p, file |-> d.writer.file,
                       date |-> gor[g].date, lastdate |-> d.lastdate,
                       handle |-> d.file,
                       open |-> /\ d.writer.file \in DOMAIN files
                                /\ files[d.writer.file].handles > 0]}
               /\ gor' = [gor EXCEPT ![g].pc = "funlock"]
               /\ UNCHANGED proc
    /\ UNCHANGED <<deviceRest, buffs, files, osStdout, published,
                   dropped, fpc, nfails, ncalls>>

\* file.lock.Unlock(), and FileDevice.Write returns to the loop
FUnlock(g) ==
    /\ proc = "running"
    /\ gor[g].pc = "funlock"
    /\ userLogger' = SetDev(gor[g].i, [Dev(gor[g].i) EXCEPT !.lock = FALSE])
    /\ gor' = [gor EXCEPT ![g].pc = "loop", ![g].i = @ + 1]
    /\ UNCHANGED <<deviceRest, buffs, proc, files, osStdout, published,
                   appends, dropped, fpc, nfails, ncalls>>

\* the loop is over: buffs.put(buff), and Logger.Write returns
WriteEnd(g) ==
    /\ proc = "running"
    /\ gor[g].pc = "loop"
    /\ gor[g].i > Len(userLogger.writers)
    /\ buffs' = put(buffs, gor[g].buff)
    /\ gor' = [gor EXCEPT ![g] =
          [NoGoroutine EXCEPT !.p = gor[g].p, !.level = gor[g].level]]
    /\ UNCHANGED <<deviceRest, userLogger, proc, files, osStdout, published,
                   appends, dropped, fpc, nfails, ncalls>>

\* a goroutine calls userLogger.Flush()
FlushCall ==
    /\ proc = "running"
    /\ userLogger # NoLogger
    /\ fpc.pc = "idle"
    /\ fpc' = [pc |-> "loop", i |-> 1]
    /\ UNCHANGED <<deviceRest, userLogger, buffs, proc, files, osStdout,
                   published, gor, appends, dropped, nfails, ncalls>>

\* Flush of a console, stdout or nsq device
FlushOther ==
    /\ proc = "running"
    /\ fpc.pc = "loop"
    /\ fpc.i <= Len(userLogger.writers)
    /\ Dev(fpc.i).kind # "file"
    /\ IF Dev(fpc.i).kind = "stdout"
       THEN /\ osStdout' = osStdout \cup
                    {Dev(fpc.i).writer.buf[k] : k \in DOMAIN Dev(fpc.i).writer.buf}
            /\ userLogger' = SetDev(fpc.i, [Dev(fpc.i) EXCEPT !.writer.buf = <<>>])
       ELSE UNCHANGED <<osStdout, userLogger>>
    /\ fpc' = [fpc EXCEPT !.i = @ + 1]
    /\ UNCHANGED <<deviceRest, buffs, proc, files, published, gor,
                   appends, dropped, nfails, ncalls>>

\* FileDevice.Flush: file.lock.Lock()
FlushLock ==
    /\ proc = "running"
    /\ fpc.pc = "loop"
    /\ fpc.i <= Len(userLogger.writers)
    /\ Dev(fpc.i).kind = "file"
    /\ ~Dev(fpc.i).lock
    /\ userLogger' = SetDev(fpc.i, [Dev(fpc.i) EXCEPT !.lock = TRUE])
    /\ fpc' = [fpc EXCEPT !.pc = "flush"]
    /\ UNCHANGED <<deviceRest, buffs, proc, files, osStdout, published, gor,
                   appends, dropped, nfails, ncalls>>

\* if file.writer != nil { file.writer.Flush() }
FlushFile ==
    /\ proc = "running"
    /\ fpc.pc = "flush"
    /\ IF Dev(fpc.i).writer.isNil
       THEN UNCHANGED <<files, userLogger>>
       ELSE \E f \in {FlushWriter(files, Dev(fpc.i).writer)} :
              /\ files' = f.files
              /\ userLogger' = SetDev(fpc.i, [Dev(fpc.i) EXCEPT !.writer = f.writer])
    /\ fpc' = [fpc EXCEPT !.pc = "unlock"]
    /\ UNCHANGED <<deviceRest, buffs, proc, osStdout, published, gor,
                   appends, dropped, nfails, ncalls>>

\* file.lock.Unlock()
FlushUnlock ==
    /\ proc = "running"
    /\ fpc.pc = "unlock"
    /\ userLogger' = SetDev(fpc.i, [Dev(fpc.i) EXCEPT !.lock = FALSE])
    /\ fpc' = [pc |-> "loop", i |-> fpc.i + 1]
    /\ UNCHANGED <<deviceRest, buffs, proc, files, osStdout, published, gor,
                   appends, dropped, nfails, ncalls>>

\* Logger.Flush returns
FlushEnd ==
    /\ proc = "running"
    /\ fpc.pc = "loop"
    /\ fpc.i > Len(userLogger.writers)
    /\ fpc' = [pc |-> "idle", i |-> 0]
    /\ UNCHANGED <<deviceRest, userLogger, buffs, proc, files, osStdout,
                   published, gor, appends, dropped, nfails, ncalls>>

\* construction of every kind of device, and log calls and Flush on the
\* kinds that keep no file
SinkDefs == DeviceDefs \ {"file:mylog"}

NextSink ==
    \/ \E define \in SinkDefs : BuildLogger(define)
    \/ \E g \in Goroutines :
          \/ \E level \in DeviceLevels, msg \in Msgs, reuse \in BOOLEAN :
                WriteBegin(g, level, msg, reuse)
          \/ LoopSkip(g)
          \/ ConsoleWrite(g)
          \/ StdoutWrite(g)
          \/ \E ok \in BOOLEAN, reuse \in BOOLEAN : NsqWrite(g, ok, reuse)
          \/ WriteEnd(g)
    \/ FlushCall
    \/ FlushOther
    \/ FlushEnd

SpecSink == Start /\ [][NextSink]_vars

\* a daily file device under concurrent log calls, Flush calls and
\* refreshes of the clock cache
NextFile ==
    \/ \E t \in Later(Days) : UpdateNowDate(t)
    \/ UpdateNowTime
    \/ UpdateNowStr
    \/ BuildLogger("file:mylog")
    \/ \E g \in Goroutines :
          \/ \E level \in DeviceLevels, msg \in Msgs, reuse \in BOOLEAN :
                WriteBegin(g, level, msg, reuse)
          \/ LoopSkip(g)
          \/ ConsoleWrite(g)
          \/ FLoad(g)
          \/ FLock(g)
          \/ FCheck(g)
          \/ FHasFile(g)
          \/ FOpen(g)
          \/ FOpenFail(g)
          \/ FWrite(g)
          \/ FUnlock(g)
          \/ WriteEnd(g)
    \/ FlushCall
    \/ FlushOther
    \/ FlushLock
    \/ FlushFile
    \/ FlushUnlock
    \/ FlushEnd

SpecFile == Start /\ [][NextFile]_vars

\* an hourly file device under log calls and refreshes of the clock cache
NextHour ==
    \/ \E t \in Later(Hours) : UpdateNowDate(t)
    \/ UpdateNowTime
    \/ UpdateNowStr
    \/ BuildHourLogger("mylog")
    \/ \E g \in Goroutines :
          \/ \E level \in DeviceLevels, msg \in Msgs, reuse \in BOOLEAN :
                WriteBegin(g, level, msg, reuse)
          \/ LoopSkip(g)
          \/ ConsoleWrite(g)
          \/ FLoad(g)
          \/ FLoadTime(g)
          \/ FLock(g)
          \/ FCheck(g)
          \/ FHasFile(g)
          \/ FOpen(g)
          \/ FWrite(g)
          \/ FUnlock(g)
          \/ WriteEnd(g)

SpecHour == Start /\ [][NextHour]_vars

\* ------------- log calls against each other and against SetLevel
\* levels of the log calls, and what SetLevel is called with
RaceLevels == {INFO, ERROR}
RaceIndexes == -1 .. MaxWriters
RaceConfigs ==
    { [isNil |-> FALSE,
       entries |-> << [Name |-> "default", Level |-> "D", Writer |-> "console"],
                      [Name |-> "default", Level |-> "Error", Writer |-> "console"] >>] }

\* no log call and no SetLevel is under way
Quiet ==
    /\ apc = "idle"
    /\ \A g \in Goroutines : gor[g].pc = "idle"

\* Init(config) before the goroutines start
RaceInit(config) ==
    /\ Quiet
    /\ ncalls = 0
    /\ Init(config)

\* the writers of the default logger whose threshold a call at level meets,
\* and met before the SetLevel under way changed it
Meets(level) ==
    {i \in DOMAIN defaultLogger.writers :
        /\ defaultLogger.writers[i].level <= level
        /\ apc # "idle" => aold[i] <= level}

raceRest == <<loggerMap, userLogger, buffs, clock, now, channels, workers,
              initers, proc, call, ret, delivered, files, published, appends,
              dropped, refreshes, upc, ut, fpc, nfails>>

\* Logger.Write on the default logger: if level < log.minLevel { return }
RTest(g, level) ==
    /\ proc = "running"
    /\ gor[g].pc = "idle"
    /\ ncalls < MaxCalls
    /\ ncalls' = ncalls + 1
    /\ gor' = [gor EXCEPT ![g] =
          [NoGoroutine EXCEPT
              !.pc = IF level < defaultLogger.minLevel THEN "idle" ELSE "get",
              !.level = level,
              !.p = [id |-> ncalls + 1, bytes |-> <<>>],
              !.q = Meets(level)]]
    /\ UNCHANGED <<raceRest, defaultLogger, osStdout, held, heap, resting,
                   handed, apc, ai, aold, nsets>>

\* buffs.get() in Format: a buffer that rests in the pool, or a new one
RGet(g, id) ==
    /\ proc = "running"
    /\ gor[g].pc = "get"
    /\ \/ id \in resting
       \/ /\ \A h \in Goroutines : held[h] # id
          /\ \A x \in Buffers :
                (x \notin resting /\ \A h \in Goroutines : held[h] # x) => id <= x
    /\ held' = [held EXCEPT ![g] = id]
    /\ resting' = resting \ {id}
    /\ heap' = IF id \in resting THEN heap ELSE [heap EXCEPT ![id] = <<>>]
    /\ gor' = [gor EXCEPT ![g].pc = "format", ![g].len = Len(heap'[id])]
    /\ UNCHANGED <<raceRest, defaultLogger, osStdout, handed, apc, ai, aold,
                   nsets, ncalls>>

\* the writes of Format into the buffer; b := buff.Bytes()
RFormat(g, msg) ==
    /\ proc = "running"
    /\ gor[g].pc = "format"
    /\ heap' = [heap EXCEPT ![held[g]] = Format(gor[g].level, msg, @)]
    /\ gor' = [gor EXCEPT ![g].pc = "loop", ![g].i = 1,
                          ![g].p.bytes = heap'[held[g]]]
    /\ UNCHANGED <<raceRest, defaultLogger, osStdout, held, resting, handed,
                   apc, ai, aold, nsets, ncalls>>

\* level < writer.level
RSkip(g) ==
    /\ proc = "running"
    /\ gor[g].pc = "loop"
    /\ gor[g].i <= Len(defaultLogger.writers)
    /\ gor[g].level < defaultLogger.writers[gor[g].i].level
    /\ gor' = [gor EXCEPT ![g].i = @ + 1]
    /\ UNCHANGED <<raceRest, defaultLogger, osStdout, held, heap, resting,
                   handed, apc, ai, aold, nsets, ncalls>>

\* a loop that gives the buffer back after each device write
RWrite_PutInLoop(g) ==
    /\ proc = "running"
    /\ gor[g].pc = "loop"
    /\ gor[g].i <= Len(defaultLogger.writers)
    /\ gor[g].level >= defaultLogger.writers[gor[g].i].level
    /\ osStdout' = osStdout \cup {heap[held[g]]}
    /\ handed' = handed \cup
          {[p |-> gor[g].p, bytes |-> heap[held[g]], pooled |-> held[g] \in resting]}
    /\ heap' = [heap EXCEPT ![held[g]] = <<>>]
    /\ resting' = IF Cardinality(resting) < MaxPool
                  THEN resting \cup {held[g]} ELSE resting
    /\ gor' = [gor EXCEPT ![g].i = @ + 1, ![g].got = @ \cup {gor[g].i},
                          ![g].puts = @ + 1]
    /\ UNCHANGED <<raceRest, defaultLogger, held, apc, ai, aold, nsets, ncalls>>

\* level >= writer.level: writer.device.Write(b), b the bytes of the buffer
RWrite(g) ==
    /\ proc = "running"
    /\ gor[g].pc = "loop"
    /\ gor[g].i <= Len(defaultLogger.writers)
    /\ gor[g].level >= defaultLogger.writers[gor[g].i].level
    /\ osStdout' = osStdout \cup {heap[held[g]]}
    /\ handed' = handed \cup
          {[p |-> gor[g].p, bytes |-> heap[held[g]], pooled |-> held[g] \in resting]}
    /\ gor' = [gor EXCEPT ![g].i = @ + 1, ![g].got = @ \cup {gor[g].i}]
    /\ UNCHANGED <<raceRest, defaultLogger, held, heap, resting, apc, ai, aold,
                   nsets, ncalls>>

\* buffs.put(buff) without buf.Reset()
REnd_NoReset(g) ==
    /\ proc = "running"
    /\ gor[g].pc = "loop"
    /\ gor[g].i > Len(defaultLogger.writers)
    /\ resting' = IF Cardinality(resting) < MaxPool
                  THEN resting \cup {held[g]} ELSE resting
    /\ held' = [held EXCEPT ![g] = 0]
    /\ gor' = [gor EXCEPT ![g].pc = "idle", ![g].puts = @ + 1]
    /\ UNCHANGED <<raceRest, defaultLogger, osStdout, heap, handed, apc, ai,
                   aold, nsets, ncalls>>

\* the loop is over: buffs.put(buff), that is buf.Reset() and pool.Put(buf),
\* which keeps the buffer or lets it go
REnd(g) ==
    /\ proc = "running"
    /\ gor[g].pc = "loop"
    /\ gor[g].i > Len(defaultLogger.writers)
    /\ heap' = [heap EXCEPT ![held[g]] = <<>>]
    /\ resting' = IF Cardinality(resting) < MaxPool
                  THEN resting \cup {held[g]} ELSE resting
    /\ held' = [held EXCEPT ![g] = 0]
    /\ gor' = [gor EXCEPT ![g].pc = "idle", ![g].puts = @ + 1]
    /\ UNCHANGED <<raceRest, defaultLogger, osStdout, handed, apc, ai, aold,
                   nsets, ncalls>>

\* SetLevel("default", index, level) up to its call of UpdateLevel: the
\* test of the index, then the new threshold for one writer, or the range
\* over copies for index -1
ASet(index, level) ==
    /\ proc = "running"
    /\ apc = "idle"
    /\ nsets < MaxSets
    /\ nsets' = nsets + 1
    /\ index < Len(defaultLogger.writers)
    /\ \E ws \in {IF index = -1
                  THEN RangeSetLevel(defaultLogger.writers, 1, getLevelFromStr(level))
                  ELSE [defaultLogger.writers EXCEPT
                            ![index + 1].level = getLevelFromStr(level)]} :
          /\ defaultLogger' = [defaultLogger EXCEPT !.writers = ws]
          /\ aold' = [i \in DOMAIN ws |-> defaultLogger.writers[i].level]
          /\ gor' = [g \in Goroutines |->
                IF gor[g].pc = "idle" THEN gor[g]
                ELSE [gor[g] EXCEPT !.q =
                        {i \in @ : ws[i].level <= gor[g].level}]]
    /\ apc' = "reset"
    /\ UNCHANGED <<raceRest, osStdout, held, heap, resting, handed, ai, ncalls>>

\* UpdateLevel: log.minLevel = DISABLE
AReset ==
    /\ proc = "running"
    /\ apc = "reset"
    /\ defaultLogger' = [defaultLogger EXCEPT !.minLevel = DISABLE]
    /\ ai' = 1
    /\ apc' = "scan"
    /\ UNCHANGED <<raceRest, osStdout, gor, held, heap, resting, handed, aold,
                   nsets, ncalls>>

\* one pass of the loop of UpdateLevel
AScan ==
    /\ proc = "running"
    /\ apc = "scan"
    /\ ai <= Len(defaultLogger.writers)
    /\ defaultLogger' = [defaultLogger EXCEPT !.minLevel =
          IF defaultLogger.writers[ai].level < @
          THEN defaultLogger.writers[ai].level ELSE @]
    /\ ai' = ai + 1
    /\ UNCHANGED <<raceRest, osStdout, gor, held, heap, resting, handed, apc,
                   aold, nsets, ncalls>>

\* UpdateLevel and SetLevel return
AReturn ==
    /\ proc = "running"
    /\ apc = "scan"
    /\ ai > Len(defaultLogger.writers)
    /\ apc' = "idle"
    /\ UNCHANGED <<raceRest, defaultLogger, osStdout, gor, held, heap, resting,
                   handed, ai, aold, nsets, ncalls>>

NextRace ==
    \/ \E config \in RaceConfigs : RaceInit(config)
    \/ \E g \in Goroutines :
          \/ \E level \in RaceLevels : RTest(g, level)
          \/ \E id \in Buffers : RGet(g, id)
          \/ \E msg \in Msgs : RFormat(g, msg)
          \/ RSkip(g)
          \/ RWrite(g)
          \/ REnd(g)
    \/ \E index \in RaceIndexes, level \in LevelStrs : ASet(index, level)
    \/ AReset
    \/ AScan
    \/ AReturn

SpecRace == Start /\ [][NextRace]_vars

\* ------------- buffered devices of the registry under the background flush
\* configurations of these runs: a file device for the default logger, a
\* buffered stdout device for the logger "app"
FlushConfigs ==
    { NoConfig,
      [isNil |-> FALSE,
       entries |-> << [Name |-> "default", Level |-> "D", Writer |-> "file:mylog"] >>],
      [isNil |-> FALSE,
       entries |-> << [Name |-> "App", Level |-> "D", Writer |-> "stdout"] >>] }

\* FileDevice.Write as one step, os.OpenFile succeeding; st carries the log
\* files, os.Stdout and the buffered writes made so far
FileWrite(st, d, p) ==
    LET date == IF d.rorate = HourRorate THEN lastDate * 100 + lastTime \div 10000
                ELSE lastDate
        rotate == d.lastdate # date /\ d.file # NilFile
        f == IF rotate THEN FlushWriter(st.files, d.writer)
             ELSE [files |-> st.files, writer |-> d.writer]
        fs1 == IF rotate THEN CloseFile(f.files, d.file) ELSE f.files
        d1 == IF rotate THEN [d EXCEPT !.writer = f.writer, !.file = NilFile] ELSE d
        fs2 == IF d1.file = NilFile THEN OpenFile(fs1, date) ELSE fs1
        d2 == IF d1.file = NilFile
              THEN [d1 EXCEPT !.file = date, !.writer = NewBufio(date),
                              !.lastdate = date]
              ELSE d1
    IN [device |-> [d2 EXCEPT !.writer.buf = Append(@, p)],
        files |-> fs2,
        osStdout |-> st.osStdout,
        appends |-> st.appends \cup
            {[p |-> p, file |-> d2.writer.file, date |-> date,
              lastdate |-> d2.lastdate, handle |-> d2.file, open |-> TRUE]}]

\* Device.Write of a console, a stdout or a file device
DevWrite(st, d, p) ==
    CASE d.kind = "console" ->
            [device |-> d, files |-> st.files,
             osStdout |-> st.osStdout \cup {p}, appends |-> st.appends]
      [] d.kind = "stdout" ->
            [device |-> [d EXCEPT !.writer.buf = Append(@, p)],
             files |-> st.files, osStdout |-> st.osStdout,
             appends |-> st.appends \cup
                {[p |-> p, file |-> StdoutFile, date |-> 0, lastdate |-> 0,
                  handle |-> StdoutFile, open |-> TRUE]}]
      [] d.kind = "file" -> FileWrite(st, d, p)

\* Device.Flush of a device of any kind
DevFlush(st, d) ==
    CASE d.kind = "stdout" ->
            [device |-> [d EXCEPT !.writer.buf = <<>>],
             files |-> st.files,
             osStdout |-> st.osStdout \cup
                {d.writer.buf[k] : k \in DOMAIN d.writer.buf}]
      [] d.kind = "file" /\ ~d.writer.isNil ->
            [device |-> [d EXCEPT !.writer = FlushWriter(st.files, d.writer).writer],
             files |-> FlushWriter(st.files, d.writer).files,
             osStdout |-> st.osStdout]
      [] OTHER -> [device |-> d, files |-> st.files, osStdout |-> st.osStdout]

\* the loop of Logger.Write with the devices written to
RECURSIVE WriteLoop(_, _, _, _)
WriteLoop(st, i, level, p) ==
    IF i > Len(st.log.writers) THEN st
    ELSE IF level < st.log.writers[i].level THEN WriteLoop(st, i + 1, level, p)
    ELSE LET w == DevWrite(st, st.log.writers[i].device, p)
         IN WriteLoop([log |-> [st.log EXCEPT !.writers[i].device = w.device],
                       files |-> w.files, osStdout |-> w.osStdout,
                       appends |-> w.appends],
                      i + 1, level, p)

\* the loop of Logger.Flush with the devices flushed
RECURSIVE FlushLoop(_, _)
FlushLoop(st, i) ==
    IF i > Len(st.log.writers) THEN st
    ELSE LET f == DevFlush(st, st.log.writers[i].device)
         IN FlushLoop([log |-> [st.log EXCEPT !.writers[i].device = f.device],
                       files |-> f.files, osStdout |-> f.osStdout],
                      i + 1)

\* for _, log := range loggerMap { log.Flush() }, over the names left
RECURSIVE FlushMap(_, _)
FlushMap(st, names) ==
    IF names = {} THEN st
    ELSE LET n == CHOOSE x \in names : TRUE
             f == FlushLoop([log |-> st.loggerMap[n], files |-> st.files,
                             osStdout |-> st.osStdout], 1)
         IN FlushMap([loggerMap |-> [st.loggerMap EXCEPT ![n] = f.log],
                      files |-> f.files, osStdout |-> f.osStdout],
                     names \ {n})

\* GetLogger(name).Write(level, ...) on the devices of the registry, and
\* os.Exit(1) after it for Fatal
RegistryLog(name, level, fatal, msg, reuse) ==
    /\ proc = "running"
    /\ ncalls < MaxCalls
    /\ fatal <=> level = FATAL
    /\ ncalls' = ncalls + 1
    /\ \E log \in {GetLogger(name)} :
          /\ IF level < log.minLevel
             THEN UNCHANGED <<registry, buffs, files, osStdout, appends>>
             ELSE \E b \in {get(buffs, reuse)} :
                  \E p \in {[id |-> ncalls + 1,
                             bytes |-> Format(level, msg, b.buff)]} :
                  \E st \in {WriteLoop([log |-> log, files |-> files,
                                        osStdout |-> osStdout,
                                        appends |-> appends], 1, level, p)} :
                      /\ IF name \in DOMAIN loggerMap
                         THEN /\ loggerMap' = [loggerMap EXCEPT ![name] = st.log]
                              /\ UNCHANGED defaultLogger
                         ELSE /\ defaultLogger' = st.log
                              /\ UNCHANGED loggerMap
                      /\ files' = st.files
                      /\ osStdout' = st.osStdout
                      /\ appends' = st.appends
                      /\ buffs' = put(b.pool, p.bytes)
          /\ delivered' = LoggerWrite(log, level, msg, buffs, reuse).delivered
          /\ call' = [NoCall EXCEPT !.op = "Write", !.via = "get", !.name = name,
                                    !.level = level, !.fatal = fatal,
                                    !.target = log]
    /\ ret' = ""
    /\ proc' = IF fatal THEN "exited" ELSE proc
    /\ UNCHANGED <<clock, now, channels, workers, initers, userLogger,
                   published, gor, dropped, refreshes, upc, ut, fpc, nfails, race>>

\* bgWorker, case <-timer.C: updateNow(), the wall clock having moved on to
\* t, defaultLogger.Flush() and the Flush of every logger of loggerMap
BgTick(t) ==
    /\ proc = "running"
    /\ now' = t
    /\ lastDate' = updateNow(t).lastDate
    /\ lastTime' = updateNow(t).lastTime
    /\ lastDateTimeStr' = updateNow(t).lastDateTimeStr
    /\ \E d \in {FlushLoop([log |-> defaultLogger, files |-> files,
                            osStdout |-> osStdout], 1)} :
       \E m \in {FlushMap([loggerMap |-> loggerMap, files |-> d.files,
                           osStdout |-> d.osStdout], DOMAIN loggerMap)} :
          /\ defaultLogger' = d.log
          /\ loggerMap' = m.loggerMap
          /\ files' = m.files
          /\ osStdout' = m.osStdout
    /\ UNCHANGED <<channels, workers, initers, api, published, gor, appends,
                   dropped, refreshes, upc, ut, fpc, nfails, ncalls, race>>

NextFlush ==
    \/ \E config \in FlushConfigs : Init(config)
    \/ \E name \in LookupNames, level \in {INFO, FATAL}, msg \in Msgs,
          reuse \in BOOLEAN :
            RegistryLog(name, level, level = FATAL, msg, reuse)
    \/ \E t \in Later(Days) : BgTick(t)

\* the ticker of the running bgWorker fires again and again
SpecFlush ==
    /\ Start
    /\ [][NextFlush]_vars
    /\ WF_vars(\E t \in Later(Days) : BgTick(t))

\* ==================================================================
\* Properties
\* ==================================================================

\* the least threshold among a logger's writers, DISABLE when it has none
MinThreshold(log) ==
    IF log.writers = <<>> THEN DISABLE
    ELSE LET S == {log.writers[i].level : i \in DOMAIN log.writers}
         IN CHOOSE m \in S : \A x \in S : m <= x

\* how many times writer i occurs among the device writes d
Times(d, i) == Cardinality({k \in DOMAIN d : d[k] = i})

\* the loggers a caller can reach
AllLoggers ==
    {defaultLogger} \cup {loggerMap[n] : n \in DOMAIN loggerMap}
        \cup (IF userLogger = NoLogger THEN {} ELSE {userLogger})

\* C1: a Write below the logger's aggregate threshold makes no device
\* write and leaves the buffer pool, the loggers and the clock as they were
C1_FastReject ==
    [][(call'.op = "Write" /\ call'.level < call'.target.minLevel)
          => /\ delivered' = <<>>
             /\ UNCHANGED <<registry, userLogger, buffs, clock>>]_vars

C1_Witness ==
    /\ call.op = "Write"
    /\ call.level < call.target.minLevel
    /\ call.target.writers # <<>>
    /\ delivered = <<>>

\* C2: a Write at level v reaches writer w's device exactly once when
\* v >= w.level and not at all otherwise, each writer on its own threshold
C2_FanOut ==
    call.op = "Write" =>
        /\ \A k \in DOMAIN delivered : delivered[k] \in DOMAIN call.target.writers
        /\ \A i \in DOMAIN call.target.writers :
              Times(delivered, i) =
                  IF call.level >= call.target.writers[i].level THEN 1 ELSE 0

\* console at DEBUG and a second writer at ERROR: INFO reaches the first only
C2_Witness ==
    /\ call.op = "Write"
    /\ call.level = INFO
    /\ Len(call.target.writers) = 2
    /\ call.target.writers[1].level = DEBUG
    /\ call.target.writers[2].level = ERROR
    /\ delivered = <<1>>

\* C3: every logger's minLevel is the least threshold of its writers, and
\* DISABLE when it has no writers
C3_AggregateIsMin ==
    \A log \in AllLoggers : log.minLevel = MinThreshold(log)

C3_Witness ==
    /\ userLogger # NoLogger
    /\ userLogger.writers # <<>>
    /\ \A i \in DOMAIN userLogger.writers : userLogger.writers[i].level = FATAL

\* the logger SetLevel(name, ...) resolves name to, in the current registry
Resolves(name) == name = "default" \/ name \in DOMAIN loggerMap
Resolved(name) == IF name = "default" THEN defaultLogger ELSE loggerMap[name]

\* C4: SetLevel(name, -1, lvl) on a logger with n >= 1 writers sets every
\* writer's threshold, and the aggregate threshold, to the level of lvl
C4_SetLevelAll ==
    (call.op = "SetLevel" /\ call.index = -1 /\ ret = "nil") =>
        LET log == Resolved(call.name)
            newlevel == getLevelFromStr(call.levelStr)
        IN Len(log.writers) >= 1 =>
              /\ \A i \in DOMAIN log.writers : log.writers[i].level = newlevel
              /\ log.minLevel = newlevel

\* C5: SetLevel returns ErrNameNotFound for a name that is neither "default"
\* nor a key of loggerMap, ErrIndexOutOfBound for an index >= the writer
\* count, and in both cases leaves defaultLogger and loggerMap as they were
C5_SetLevelErrors ==
    [][call'.op = "SetLevel" =>
          /\ ~Resolves(call'.name) =>
                /\ ret' = "name_not_found"
                /\ UNCHANGED <<registry, proc>>
          /\ (Resolves(call'.name)
                /\ call'.index >= Len(Resolved(call'.name).writers)) =>
                /\ ret' = "index_out_of_bound"
                /\ UNCHANGED <<registry, proc>>]_vars

C5_Witness ==
    /\ call.op = "SetLevel"
    /\ call.name = "app"
    /\ "app" \in DOMAIN loggerMap
    /\ call.index = Len(loggerMap["app"].writers)
    /\ ret = "index_out_of_bound"

\* C6: for every index outside {-1} \cup [0, writer count) SetLevel returns
\* an error to its caller, the process keeps running, no threshold changes
C6_BadIndexIsError ==
    [][(call'.op = "SetLevel" /\ Resolves(call'.name)
          /\ call'.index # -1
          /\ call'.index \notin 0 .. Len(Resolved(call'.name).writers) - 1)
          => /\ ret' \in {"name_not_found", "index_out_of_bound"}
             /\ proc' = "running"
             /\ UNCHANGED registry]_vars

\* C7: on a logger whose writers all have threshold DISABLE, a log call at
\* any level makes no device write
C7_DisableNeverMatches ==
    (call.op = "Write" /\ call.target.writers # <<>>
        /\ \A i \in DOMAIN call.target.writers :
              call.target.writers[i].level = DISABLE)
        => delivered = <<>>

\* the writer Init builds for a configuration entry
EntryWriter(e) == NewWriter(getLevelFromStr(e.Level), ToLower(e.Writer))

\* the writers of the entries of a configuration that name n, in order
RECURSIVE EntryWriters(_, _)
EntryWriters(entries, n) ==
    IF entries = <<>> THEN <<>>
    ELSE (IF ToLower(Head(entries).Name) = n
          THEN <<EntryWriter(Head(entries))>> ELSE <<>>)
            \o EntryWriters(Tail(entries), n)

EntryNames(entries) == {ToLower(entries[i].Name) : i \in DOMAIN entries}

\* C9: after Init(config), (1) every name but "default" maps to its prior
\* writers followed by the writers of its entries, in order; (2) with a
\* "default" entry the default logger has exactly the writers of the
\* "default" entries; (3) without one it is unchanged; and every logger's
\* aggregate threshold is the least threshold of its writers
C9_MergeRule ==
    [][call'.op = "Init" =>
          LET entries == call'.config.entries
              names == EntryNames(entries)
              prior(n) == IF n \in DOMAIN loggerMap
                          THEN loggerMap[n].writers ELSE <<>>
          IN /\ DOMAIN loggerMap' = DOMAIN loggerMap \cup (names \ {"default"})
             /\ \A n \in DOMAIN loggerMap' :
                   loggerMap'[n].writers = prior(n) \o EntryWriters(entries, n)
             /\ "default" \in names =>
                   defaultLogger'.writers = EntryWriters(entries, "default")
             /\ "default" \notin names => defaultLogger' = defaultLogger
             /\ defaultLogger'.minLevel = MinThreshold(defaultLogger')
             /\ \A n \in DOMAIN loggerMap' :
                   loggerMap'[n].minLevel = MinThreshold(loggerMap'[n])]_vars

\* an Init that appended to a registered "app" and re-declared "default"
C9_Witness ==
    /\ call.op = "Init"
    /\ Len(call.config.entries) = 2
    /\ call.config.entries[1].Name = "App"
    /\ call.config.entries[2].Name = "default"
    /\ call.config.entries[2].Level = "Error"
    /\ "app" \in DOMAIN loggerMap
    /\ Len(loggerMap["app"].writers) = 2
    /\ defaultLogger.writers = <<NewWriter(ERROR, "console")>>

\* C10: a log call through GetLogger(name) is served by the logger
\* registered under name, by the default logger when there is none, never
\* by no logger; GetLogger("default") and the free functions are served by
\* the current default logger
C10_LookupNeverFails ==
    /\ "default" \notin DOMAIN loggerMap
    /\ defaultLogger # NoLogger
    /\ call.op = "Write" =>
          /\ call.target # NoLogger
          /\ call.via = "free" => call.target = defaultLogger
          /\ (call.via = "get" /\ call.name \in DOMAIN loggerMap)
                => call.target = loggerMap[call.name]
          /\ (call.via = "get" /\ call.name \notin DOMAIN loggerMap)
                => call.target = defaultLogger

\* GetLogger("default") after an Init gave the default logger two writers
C10_Witness ==
    /\ call.op = "Write"
    /\ call.via = "get"
    /\ call.name = "default"
    /\ Len(defaultLogger.writers) = 2
    /\ call.target = defaultLogger
    /\ Len(delivered) = 2

\* C8: at most one bgWorker is live at any moment; an Init between its
\* receipt of the acknowledgment and its go statement, where it changes
\* loggerMap, defaultLogger and the clock cache, runs with no bgWorker live
\* and no other Init in that stretch; a bgWorker that has sent its
\* acknowledgment only returns; the registry changes in Init's loop only
C8_Handshake ==
    /\ [](/\ Cardinality({w \in Workers : Live(w)}) <= 1
          /\ \A c \in Callers : Mutating(c) =>
                /\ \A w \in Workers : ~Live(w)
                /\ \A d \in Callers : Mutating(d) => d = c
                /\ defaultGoroutineCloseCh = <<>>)
    /\ [][/\ \A w \in Workers :
                wpc[w] = "stop" => wpc'[w] \in {"stop", "none"}
          /\ (loggerMap' # loggerMap \/ defaultLogger' # defaultLogger) =>
                \E c \in Callers : ipc[c] = "loop" /\ ii'[c] = ii[c] + 1]_vars

\* a second Init waits for its acknowledgment, its cancel token in the
\* channel, while the first is in its loop and the old bgWorker returns
C8_Witness ==
    \E c, d \in Callers :
        /\ ipc[c] = "loop"
        /\ ii[c] = 2
        /\ ipc[d] = "recv"
        /\ Len(defaultGoroutineCancelCh) = 1
        /\ \E w \in Workers : wpc[w] = "stop"

\* the records on the disk of log file b, and those its device has taken
OnDisk(b) == {files[b].disk[k] : k \in DOMAIN files[b].disk}
Taken(b) == {a.p : a \in {x \in appends : x.file = b}}

\* the log files some handle is open on
OpenFiles == {b \in DOMAIN files : files[b].handles > 0}

\* C11: a daily file device appends every record to the file named by the
\* date bucket the clock cache held when the write read it; a file is
\* flushed and closed before another is opened: at most one file is open,
\* under one handle, and every record taken for a closed file is on its disk
C11_Rotation ==
    /\ \A a \in appends : a.file = a.date
    /\ Cardinality(OpenFiles) <= 1
    /\ \A b \in DOMAIN files :
          /\ files[b].handles <= 1
          /\ files[b].handles = 0 => Taken(b) \subseteq OnDisk(b)

\* a record on the disk of the closed file of day 1, a later one taken for
\* the open file of day 2
C11_Witness ==
    /\ userLogger # NoLogger
    /\ \E a, b \in appends :
          /\ a.file = 1
          /\ b.file = 2
          /\ a.p.id < b.p.id
          /\ files[1].handles = 0
          /\ a.p \in OnDisk(1)
          /\ files[2].handles = 1
          /\ Dev(1).file = 2

\* goroutines between file.lock.Lock() and file.lock.Unlock()
InWrite == {g \in Goroutines : gor[g].pc \in {"fcheck", "ftest", "fwrite", "funlock"}}
InFlush == IF fpc.pc \in {"flush", "unlock"} THEN {0} ELSE {}

\* C12: the locked stretches of Write and Flush calls on a file device never
\* overlap; every record is appended while the device holds an open file,
\* through the writer of that file, and the file's bucket is the device's
\* lastdate
C12_MutualExclusion ==
    /\ Cardinality(InWrite \cup InFlush) <= 1
    /\ proc # "panicked"
    /\ \A a \in appends :
          /\ a.open
          /\ a.handle = a.file
          /\ a.file = a.lastdate

\* a Write waits for the lock while a Flush is about to flush a record
C12_Witness ==
    /\ fpc.pc = "flush"
    /\ Dev(fpc.i).writer.buf # <<>>
    /\ \E g \in Goroutines : gor[g].pc = "flock"

\* C17: a record whose open failed is appended to no file, then or later;
\* the failing call leaves the device with no file and its lock free and
\* goes on to the next writer; once the call has returned, the process
\* runs and every other writer whose threshold the level meets has the
\* record; a later write that finds no file tries the open again
C17_OpenFailure ==
    /\ [](/\ \A a \in appends : a.p \notin dropped
          /\ \A b \in DOMAIN files : OnDisk(b) \cap dropped = {}
          /\ \A g \in Goroutines :
                (gor[g].pc = "idle" /\ gor[g].p \in dropped) =>
                    /\ proc = "running"
                    /\ \A i \in DOMAIN userLogger.writers :
                          (Dev(i).kind = "console"
                              /\ gor[g].level >= userLogger.writers[i].level)
                            => gor[g].p \in osStdout)
    /\ [][/\ \A g \in Goroutines :
                (gor[g].p \notin dropped /\ gor[g].p \in dropped') =>
                    /\ userLogger'.writers[gor[g].i].device.file = NilFile
                    /\ ~userLogger'.writers[gor[g].i].device.lock
                    /\ gor'[g].pc = "loop"
                    /\ gor'[g].i = gor[g].i + 1
                    /\ proc' = "running"
          /\ \A g \in Goroutines :
                (gor[g].pc = "ftest" /\ gor'[g].pc # "ftest"
                    /\ Dev(gor[g].i).file = NilFile) =>
                    \/ gor[g].p \in dropped'
                    \/ /\ gor[g].date \in OpenFiles'
                       /\ userLogger'.writers[gor[g].i].device.file = gor[g].date]_vars

\* a call at ERROR lost its record at the file and delivered it to the
\* console; a later call reopened the file
C17_Witness ==
    \E g \in Goroutines :
        /\ gor[g].pc = "idle"
        /\ gor[g].p \in dropped
        /\ gor[g].level = ERROR
        /\ gor[g].p \in osStdout
        /\ \E a \in appends : a.p.id > gor[g].p.id

\* the cache before the first updateNow
ZeroInstant == [date |-> 0, time |-> 0]

\* C13: what a reader takes from the clock cache comes from one refresh:
\* the lastDate and lastTime an hourly file device combines into its
\* bucket were stored by the same updateNow, and the prefix of a record is
\* the string of one updateNow
C13_AtomicSnapshot ==
    \A g \in Goroutines :
        /\ (gor[g].ldate # -1 /\ gor[g].ltime # -1) =>
              \E r \in refreshes \cup {ZeroInstant} :
                  /\ gor[g].ldate = r.date
                  /\ gor[g].ltime = r.time
        /\ gor[g].p # NoRecord =>
              \/ gor[g].p.bytes[2] = <<>>
              \/ \E r \in refreshes :
                    gor[g].p.bytes[2] = updateNow(r).lastDateTimeStr

\* the sink type of a descriptor, and the fields of its arguments
TagOf(define) == SplitDefine(define)[1]
FieldsOf(define) ==
    IF Len(SplitDefine(define)) = 2 THEN SplitArgs(SplitDefine(define)[2])
    ELSE <<>>

\* C15: NewWriter with a sink type that deviceMap has no constructor for
\* ends without a panic
C15_UnknownTagIsError ==
    (call.op = "NewWriter" /\ TagOf(call.name) \notin DOMAIN deviceMap)
        => proc # "panicked"

\* a descriptor nsq:<host>:<port>:<name>:<topic> of four non-empty fields
WellFormed(define) ==
    /\ TagOf(define) = "nsq"
    /\ Len(FieldsOf(define)) = 4
    /\ \A i \in 1 .. 4 : Trim(FieldsOf(define)[i]) # ""

\* C16: an nsq device of a well-formed descriptor publishes name, '|' and
\* the record under topic, name being the third field and topic the fourth;
\* a descriptor of fewer fields or with an empty one exits the process in
\* NewWriter, no logger built
C16_NsqFields ==
    call.op = "NewWriter" /\ TagOf(call.name) = "nsq" =>
        IF WellFormed(call.name)
        THEN /\ proc = "running"
             /\ \A m \in published :
                   /\ m.topic = Trim(FieldsOf(call.name)[4])
                   /\ Len(m.body) = 3
                   /\ m.body[1] = Trim(FieldsOf(call.name)[3])
                   /\ m.body[2] = "|"
                   /\ \E g \in Goroutines : m.body[3] = gor[g].p
        ELSE /\ proc = "exited"
             /\ userLogger = NoLogger
             /\ published = {}

\* C14: a call of Fatal or of Logger.Fatal hands the record to every
\* writer whose threshold FATAL meets, once each, and then exits the
\* process, also when the logger has no writer to hand it to; no other log
\* call ends the process
C14_FatalExits ==
    [][call'.op = "Write" =>
          IF call'.fatal
          THEN /\ call'.level = FATAL
               /\ \A i \in DOMAIN call'.target.writers :
                     FATAL >= call'.target.writers[i].level
                         => Times(delivered', i) = 1
               /\ proc' = "exited"
          ELSE proc' = "running"]_vars

\* Fatal on a logger built without writers
C14_Witness ==
    /\ call.op = "Write"
    /\ call.fatal
    /\ call.target.writers = <<>>
    /\ delivered = <<>>
    /\ proc = "exited"

\* C18: every buffer get() hands out has length 0, be it new or one that
\* was filled and put back, and every buffer resting in the pool is empty
C18_PoolRoundTrip ==
    /\ \A id \in resting : heap[id] = <<>>
    /\ \A g \in Goroutines :
          /\ gor[g].len = 0
          /\ gor[g].pc = "format" => heap[held[g]] = <<>>

\* the second log call holds, still unwritten, the buffer the first one
\* filled, handed to a device and put back
C18_Witness ==
    \E g \in Goroutines :
        /\ gor[g].pc = "format"
        /\ gor[g].p.id = 2
        /\ held[g] = 1
        /\ \E h \in handed : h.p.id = 1 /\ h.bytes # <<>>

\* C19: no two log calls under way hold the same buffer and none holds a
\* buffer that rests in the pool; the bytes a device is handed are the bytes
\* the call formatted, in a buffer not back in the pool; a call gives its
\* buffer back once, in Logger.Write after the loop over the writers
C19_BufferOwnership ==
    /\ [](/\ \A g, h \in Goroutines :
                (g # h /\ held[g] # 0) => held[g] # held[h]
          /\ \A g \in Goroutines :
                /\ held[g] # 0 => held[g] \notin resting
                /\ gor[g].pc \in {"format", "loop"} =>
                      (held[g] # 0 /\ gor[g].puts = 0)
                /\ gor[g].pc \in {"idle", "get"} => held[g] = 0
                /\ (gor[g].pc = "idle" /\ gor[g].p.bytes # <<>>) => gor[g].puts = 1
          /\ \A h \in handed : ~h.pooled /\ h.bytes = h.p.bytes)
    /\ [][\A g \in Goroutines :
            (gor'[g].puts > gor[g].puts \/ (held[g] # 0 /\ held'[g] # held[g])) =>
                /\ gor[g].pc = "loop"
                /\ gor[g].i > Len(defaultLogger.writers)
                /\ gor'[g].pc = "idle"
                /\ held'[g] = 0]_vars

\* two log calls in their loops, each with a buffer of its own, one of them
\* taken from the pool, both having written to the first device
C19_Witness ==
    /\ \A g \in Goroutines : gor[g].pc = "loop" /\ gor[g].i = 2 /\ gor[g].got = {1}
    /\ Len(defaultLogger.writers) = 2
    /\ \E g, h \in Goroutines : held[g] = 1 /\ held[h] = 2

\* C20: a writer whose threshold the level of a log call meets all through
\* the call, before and after a SetLevel that runs beside it, gets the record
C20_NoLostMessage ==
    \A g \in Goroutines :
        (gor[g].pc = "idle" /\ gor[g].p # NoRecord) => gor[g].q \subseteq gor[g].got

\* C21: the buckets a file device opens never go down: once it holds the
\* file of a day the clock cache was refreshed to, no later write of a day
\* the cache held before it takes the device back to that day's file
C21_RotationForward ==
    [][\A i \in DOMAIN userLogger.writers :
          (/\ userLogger' # NoLogger
           /\ Dev(i).kind = "file"
           /\ Dev(i).lastdate >= 1
           /\ userLogger'.writers[i].device.lastdate >= 1)
            => userLogger'.writers[i].device.lastdate >= Dev(i).lastdate]_vars

\* a buffered write whose record is in the sink under its device
Reached(a) ==
    IF a.file = StdoutFile THEN a.p \in osStdout
    ELSE a.file \in DOMAIN files /\ a.p \in OnDisk(a.file)

\* C22: every record a file device or a buffered stdout device of the
\* registry took is in the end in the file or on os.Stdout, whatever Init
\* and Fatal calls follow the write
C22_EventualFlush ==
    \A k \in 1 .. MaxCalls :
        (\E a \in appends : a.p.id = k) ~>
            (\A a \in appends : a.p.id = k => Reached(a))

\* C23: under fair scheduling every Init that was called returns, which it
\* does only past the receipt of its acknowledgment; whenever no Init is
\* under way one bgWorker is live, no bgWorker is about to acknowledge and
\* both channels are empty
C23_InitTerminates ==
    /\ \A c \in Callers : (ipc[c] # "idle") ~> (ipc[c] = "idle")
    /\ []((\A c \in Callers : ipc[c] = "idle") =>
            /\ Cardinality({w \in Workers : Live(w)}) = 1
            /\ \A w \in Workers : wpc[w] # "ack"
            /\ defaultGoroutineCancelCh = <<>>
            /\ defaultGoroutineCloseCh = <<>>)

\* both goroutines have called Init and returned, MaxInits calls in all,
\* the bgWorker of the last one running beside one that is returning
C23_Witness ==
    /\ inits = MaxInits
    /\ \A c \in Callers : ipc[c] = "idle" /\ ii[c] >= 1
    /\ \E w, v \in Workers : wpc[w] = "select" /\ wpc[v] = "stop"

====
